---- MODULE Spec2Model ----
(***************************************************************************)
(* Model of the code-generation workflow of aelf_code_generator/agent.py:  *)
(* the LangGraph state graph built by create_agent, its five stage         *)
(* functions, the validation router and the build-test loop.               *)
(*                                                                         *)
(* A run owns one state["generate"]["_internal"] dictionary.  It is        *)
(* modelled as a record: `keys` is the set of keys the dictionary holds,   *)
(* the other fields are the values stored under those keys (a field whose  *)
(* key is not in `keys` holds a filler value that the code cannot read:    *)
(* every read goes through Get, the model of dict.get(key, default)).      *)
(* Texts (model completions, file contents, build output) are abstracted   *)
(* to tokens that say where the text came from.                            *)
(***************************************************************************)
EXTENDS Integers, Sequences, FiniteSets, TLC

\* ------------------------------------------------------------------ bounds
\* Largest validation_count a caller puts into the initial state.
MaxInitCount == 3
\* Largest test_cycle_count a caller puts into the initial state.
MaxEntryCycles == 2
\* Largest number of fenced blocks in a completion.
MaxBlocks == 3
\* Largest number of queries analyze_codebase derives from an analysis.
MaxQueries == 2
\* Largest number of queries in the retrievals that fill the merged sample set.
MaxMergeQueries == 3
\* Largest number of lines of a validation feedback.
MaxFeedbackLines == 3

\* ------------------------------------------------------- program constants
\* validation_router: "if current_count < 2".
V_MAX == 2
\* A loop cap one too large.
max_cycles_three == 3
\* test_contract: "max_cycles = 2".
max_cycles == 2
\* The bounds the specification names for the two loops.
T_MAX == 2

Runs == {1, 2}

END == "__end__"

\* Keys of the ContractOutput dictionary (types.py) and the keys the
\* build-fix parser requires.
OutputKeys == {"contract", "state", "proto", "reference", "project", "metadata", "analysis"}
required_keys == {"contract", "state", "proto", "reference", "project", "metadata"}

\* File contents, abstracted to their origin.
File(src, n) == [src |-> src, n |-> n]
NoFile == File("absent", 0)
empty_code_file == File("empty", 0)

\* ------------------------------------------------------------ default state
\* get_default_state()["generate"]["_internal"], plus the locals of the
\* stage functions and the requests the run has sent to the build service.
NoTestResults == [passed |-> FALSE, build_output |-> "unbound", errors |-> "none", test_cycle |-> 0]
NoValidationResult == [passed |-> FALSE, issues |-> "absent"]

DefaultOutput ==
  [k \in OutputKeys |-> IF k = "analysis" THEN File("", 0)
                        ELSE IF k = "metadata" THEN File("list", 0)
                        ELSE empty_code_file]

get_default_state ==
  [ keys               |-> {"analysis", "codebase_insights", "output", "validation_count"},
    analysis           |-> "",
    codebase_insights  |-> "blank",
    output             |-> DefaultOutput,
    validation_count   |-> 0,
    validation_complete |-> FALSE,
    validation_result  |-> NoValidationResult,
    validation_status  |-> "",
    fixes              |-> "",
    test_cycle_count   |-> 0,
    test_results       |-> NoTestResults,
    suggested_fixes    |-> "",
    validation_results |-> NoValidationResult,
    retrieved_samples  |-> "unset" ]

\* dict.get(key, default) on the internal state.
Get(s, key, value, default) == IF key \in s.keys THEN value ELSE default

\* ----------------------------------------------------------- the state graph
\* create_agent: add_edge(...) calls.
StaticEdges(n) ==
  CASE n = "analyze"          -> {"analyze_codebase"}
    [] n = "analyze_codebase" -> {"generate_code"}
    [] n = "generate_code"    -> {"validate", END}
    [] n = "test_contract"    -> {END}
    [] OTHER                  -> {}

\* The node the engine runs after node n returned Command(goto = goto), or
\* after the conditional edge of n chose goto.  A Command adds its target to
\* the static edges of the node, it does not replace them; END is not a node.
NextNode(n, goto) ==
  LET targets == (StaticEdges(n) \cup {goto}) \ {END}
  IN  IF targets = {} THEN END ELSE CHOOSE t \in targets : TRUE

\* An output dictionary without any key ({}).
EmptyDict == [k \in OutputKeys |-> NoFile]

\* ------------------------------------------------------------------ stages
\* Every stage function is an operator from the internal state it receives
\* (and the outcome of its external call) to [state, goto]: the internal
\* state it writes and the node it names.

\* analyze_requirements.  completion: "text", "empty" (blank completion) or
\* "raise" (the model call raised).
analyze_requirements(s, completion) ==
  IF completion = "text"
  THEN [state |-> [s EXCEPT !.keys = @ \cup {"analysis", "output"},
                            !.analysis = "analysis",
                            !.output = [Get(s, "output", s.output, EmptyDict)
                                          EXCEPT !["analysis"] = File("analysis", 0)]],
        goto  |-> "analyze_codebase"]
  ELSE [state |-> [s EXCEPT !.keys = @ \cup {"analysis", "output"},
                            !.analysis = "analyze_error",
                            !.output = [Get(s, "output", s.output, EmptyDict)
                                          EXCEPT !["analysis"] = File("analyze_error", 0)]],
        goto  |-> END]

\* The outcomes of the external calls of analyze_codebase.  retrieval:
\* "samples" (the queries returned samples), "failed" (every query raised or
\* the retriever caught its own exception and returned nothing; the loop of
\* lines 686-709 goes on) or "setup_raise" (an exception before the synthesis
\* call, outside the loop).  synthesis: the completion is a text, is empty,
\* or the call raised or timed out.
AnalyzeOutcomes ==
  [retrieval : {"samples", "failed"}, synthesis : {"text", "empty", "raise"}]
    \cup [retrieval : {"setup_raise"}, synthesis : {"raise"}]

\* analyze_codebase whose error path leaves codebase_insights as it found it.
analyze_codebase_no_fallback(s, outcome) ==
  LET analysis == Get(s, "analysis", s.analysis, "")
      s1 == IF analysis = ""
            THEN [s EXCEPT !.keys = @ \cup {"analysis"}, !.analysis = "generic"]
            ELSE s
  IN  [state |-> IF outcome.synthesis = "text"
                 THEN [s1 EXCEPT !.keys = @ \cup {"codebase_insights"},
                                 !.codebase_insights = "synthesized"]
                 ELSE s1,
       goto  |-> "generate_code"]

\* analyze_codebase.  outcome: a member of AnalyzeOutcomes.
analyze_codebase(s, outcome) ==
  LET analysis == Get(s, "analysis", s.analysis, "")
      s1 == IF analysis = ""
            THEN [s EXCEPT !.keys = @ \cup {"analysis"}, !.analysis = "generic"]
            ELSE s
      s2 == IF outcome.retrieval = "setup_raise" THEN s1
            ELSE [s1 EXCEPT !.keys = @ \cup {"retrieved_samples"},
                            !.retrieved_samples =
                               IF outcome.retrieval = "samples" THEN "samples" ELSE "empty"]
  IN  [state |-> [s2 EXCEPT !.keys = @ \cup {"codebase_insights"},
                            !.codebase_insights =
                               IF outcome.synthesis = "text" THEN "synthesized" ELSE "default"],
       goto  |-> "generate_code"]

\* generate_contract whose error path keeps the artifacts of the last pass.
generate_contract_keeps_artifacts(s, completion, n) ==
  LET output == Get(s, "output", s.output, EmptyDict)
  IN  IF completion = "text"
      THEN [state |-> [s EXCEPT !.keys = @ \cup {"output"},
                                !.output = [k \in OutputKeys |->
                                              IF k = "analysis" THEN File(s.analysis, 0)
                                              ELSE File("generate", n)]],
            goto  |-> "validate"]
      ELSE [state |-> [s EXCEPT !.keys = @ \cup {"output"},
                                !.output = [output EXCEPT !["analysis"] = File("generate_error", 0)]],
            goto  |-> END]

\* generate_contract.  completion: "text" (a completion the extractor turns
\* into artifacts; n numbers the completion), "fail" (empty completion,
\* model exception, timeout without text, or an exception while extracting).
generate_contract(s, completion, n) ==
  LET analysis == Get(s, "analysis", s.analysis, "")
      s1 == IF analysis = ""
            THEN [s EXCEPT !.keys = @ \cup {"analysis"}, !.analysis = "generic"]
            ELSE s
      s2 == IF Get(s, "codebase_insights", s.codebase_insights, "none") = "none"
            THEN [s1 EXCEPT !.keys = @ \cup {"codebase_insights"}, !.codebase_insights = "generic"]
            ELSE s1
  IN  IF completion = "text"
      THEN [state |-> [s2 EXCEPT !.keys = @ \cup {"output"},
                                 !.output = [k \in OutputKeys |->
                                               IF k = "analysis" THEN File(s2.analysis, 0)
                                               ELSE File("generate", n)]],
            goto  |-> "validate"]
      ELSE [state |-> [s2 EXCEPT !.keys = @ \cup {"output"},
                                 !.output = [k \in OutputKeys |->
                                               IF k = "analysis" THEN File("generate_error", 0)
                                               ELSE IF k = "metadata" THEN File("list", 0)
                                               ELSE empty_code_file]],
            goto  |-> END]

\* The feedback texts of the validation model call: whether an issue line was
\* extracted (or a critical keyword found) and whether the text contains
\* "no issues found".
Feedbacks == [kind : {"feedback"}, issues : BOOLEAN, affirmative : BOOLEAN]
\* The outcomes of the validation model call: a feedback text, an empty
\* completion, or an exception.
ValidationReplies ==
  Feedbacks \cup [kind : {"empty", "raise"}, issues : {FALSE}, affirmative : {FALSE}]

\* validate_contract whose error path always takes the fallback count 1 of
\* line 1478 ("... else 1").
validate_contract_fallback_count(s, reply) ==
  LET current_count == Get(s, "validation_count", s.validation_count, 0)
  IN  [s EXCEPT !.keys = @ \cup {"validation_count", "validation_complete"},
                !.validation_count = IF reply.kind = "feedback" THEN current_count + 1 ELSE 1,
                !.validation_complete = TRUE]

\* validate_contract.  reply: a member of ValidationReplies.
validate_contract(s, reply) ==
  LET current_count == Get(s, "validation_count", s.validation_count, 0)
      output == Get(s, "output", s.output, EmptyDict)
      written == {"validation_count", "validation_complete", "validation_result",
                  "validation_status", "output", "fixes"}
  IN  IF reply.kind = "feedback"
      THEN LET passed == (~reply.issues) \/ reply.affirmative
           IN  [s EXCEPT !.keys = @ \cup written,
                         !.validation_count = current_count + 1,
                         !.validation_complete = TRUE,
                         !.validation_result =
                            [passed |-> passed,
                             issues |-> IF reply.issues THEN "extracted" ELSE "none"],
                         !.validation_status = IF passed THEN "success" ELSE "needs_improvement",
                         !.output = output,
                         !.fixes = "feedback"]
      ELSE [s EXCEPT !.keys = @ \cup written,
                     !.validation_count = current_count + 1,
                     !.validation_complete = TRUE,
                     !.validation_result = [passed |-> FALSE, issues |-> "error"],
                     !.validation_status = "error",
                     !.output = output,
                     !.fixes = "validation_error"]

\* validation_router with an off-by-one comparison.
validation_router_le(s) ==
  LET current_count == Get(s, "validation_count", s.validation_count, 0)
  IN  [state |-> [s EXCEPT !.keys = @ \cup {"validation_count"},
                           !.validation_count = current_count + 1],
       route |-> IF current_count <= 2 THEN "generate_code" ELSE "test_contract"]

\* validation_router that stops looping as soon as a validation passed.
validation_router_on_passed(s) ==
  LET current_count == Get(s, "validation_count", s.validation_count, 0)
  IN  [state |-> [s EXCEPT !.keys = @ \cup {"validation_count"},
                           !.validation_count = current_count + 1],
       route |-> IF current_count < 2 /\ ~s.validation_result.passed
                 THEN "generate_code" ELSE "test_contract"]

\* The router of the variant the router tests were written for: one validation
\* cycle, then the end of the run.
validation_router_one_cycle(s) ==
  LET current_count == Get(s, "validation_count", s.validation_count, 0)
      s1 == IF "output" \in s.keys THEN s ELSE [s EXCEPT !.output = EmptyDict]
      s2 == IF "validation_result" \in s.keys THEN s1
            ELSE [s1 EXCEPT !.validation_result = [passed |-> TRUE, issues |-> "none"]]
      s3 == IF "validation_status" \in s.keys THEN s2
            ELSE [s2 EXCEPT !.validation_status = "success"]
      s4 == IF "fixes" \in s.keys THEN s3 ELSE [s3 EXCEPT !.fixes = ""]
  IN  [state |-> [s4 EXCEPT !.keys = @ \cup {"output", "validation_result", "validation_status",
                                             "fixes", "validation_count"},
                            !.validation_count = current_count + 1],
       route |-> IF current_count < 1 THEN "generate_code" ELSE END]

\* validation_router: the state it leaves behind and the node it returns.
\* The dictionary it writes to is the one validate_contract returned, which
\* the engine stores as the state of the run, so its writes stay.
validation_router(s) ==
  LET current_count == Get(s, "validation_count", s.validation_count, 0)
      s1 == IF "output" \in s.keys THEN s ELSE [s EXCEPT !.output = EmptyDict]
      s2 == IF "validation_result" \in s.keys THEN s1
            ELSE [s1 EXCEPT !.validation_result = [passed |-> TRUE, issues |-> "none"]]
      s3 == IF "validation_status" \in s.keys THEN s2
            ELSE [s2 EXCEPT !.validation_status = "success"]
      s4 == IF "fixes" \in s.keys THEN s3 ELSE [s3 EXCEPT !.fixes = ""]
  IN  [state |-> [s4 EXCEPT !.keys = @ \cup {"output", "validation_result", "validation_status",
                                             "fixes", "validation_count"},
                            !.validation_count = current_count + 1],
       route |-> IF current_count < 2 THEN "generate_code" ELSE "test_contract"]

VARIABLES
  node,            \* node[r]: the node the engine runs next in run r
  internal_state,  \* internal_state[r]: state["generate"]["_internal"] of run r
  locals,          \* locals[r]: local variables of the stage function in progress
  calls,           \* calls[r]: the external calls run r has made so far
  invoke_state,    \* invoke_state[r]: the internal state run r was started with
  response_content, \* the lines of the completion handed to the extractor
  extracted,       \* what the extractor made of the completion
  faiss_index,     \* the persisted vector index (vector_store/faiss_index on disk)
  samples_dir,     \* the corpus directory (RAG_CONFIG["samples_dir"])
  all_samples      \* all_samples[r]: the samples run r's analyze_codebase has retrieved

vars == <<node, internal_state, locals, calls, invoke_state, response_content, extracted,
          faiss_index, samples_dir, all_samples>>

\* Locals of generate_contract (validation_count) and of test_contract.
NoLocals == [validation_count |-> 0, pc |-> "idle", test_cycle_count |-> 0,
             test_results |-> NoTestResults]

\* generate: number of generation completions requested; fix: the replies to
\* the fix requests sent to the model; build: the submissions to the build
\* service, each with the output submitted and the response received;
\* analyze: the outcomes of the retrieval and synthesis calls; retrieve: for
\* each retrieval the persisted index it found, what the services did and the
\* vector store each of its queries got; completions: what the generation
\* model call did each time it was made.
NoCalls == [generate |-> 0, fix |-> <<>>, build |-> <<>>, analyze |-> <<>>, retrieve |-> <<>>,
            completions |-> <<>>]

\* ----------------------------------------------------------------- actions
AnalyzeRequirements(r) ==
  /\ node[r] = "analyze"
  /\ \E completion \in {"text", "empty", "raise"} :
       LET res == analyze_requirements(internal_state[r], completion)
       IN  /\ internal_state' = [internal_state EXCEPT ![r] = res.state]
           /\ node' = [node EXCEPT ![r] = NextNode("analyze", res.goto)]
  /\ UNCHANGED <<locals, calls, invoke_state, response_content, extracted,
               faiss_index, samples_dir, all_samples>>

AnalyzeCodebase(r) ==
  /\ node[r] = "analyze_codebase"
  /\ \E outcome \in AnalyzeOutcomes :
       LET res == analyze_codebase(internal_state[r], outcome)
       IN  /\ internal_state' = [internal_state EXCEPT ![r] = res.state]
           /\ node' = [node EXCEPT ![r] = NextNode("analyze_codebase", res.goto)]
           /\ calls' = [calls EXCEPT ![r].analyze = Append(@, outcome)]
  /\ UNCHANGED <<locals, invoke_state, response_content, extracted,
               faiss_index, samples_dir, all_samples>>

GenerateContract(r) ==
  /\ node[r] = "generate_code"
  /\ \E completion \in {"text", "fail"} :
       LET s == internal_state[r]
           res == generate_contract(s, completion, calls[r].generate + 1)
       IN  /\ internal_state' = [internal_state EXCEPT ![r] = res.state]
           /\ node' = [node EXCEPT ![r] = NextNode("generate_code", res.goto)]
           /\ locals' = [locals EXCEPT ![r].validation_count =
                                          Get(s, "validation_count", s.validation_count, 0)]
           /\ calls' = [calls EXCEPT ![r].generate = @ + 1]
  /\ UNCHANGED <<invoke_state, response_content, extracted,
               faiss_index, samples_dir, all_samples>>

\* What the generation model call does (lines 1020-1031): it returns a
\* response with a text or with none, it raises TimeoutError after the
\* client has received a part of the text or nothing, or it raises another
\* exception.
GenerateCalls ==
  [kind : {"returned"}, text : {"text", "empty"}]
    \cup [kind : {"timeout"}, text : {"partial", "none"}]
    \cup [kind : {"raise"}, text : {"none"}]

\* Lines 1020-1031: the completion generate_contract goes on with.  The
\* handler of TimeoutError reads the local `response`, which only the
\* assignment of line 1022 binds: the await that raised never returned, the
\* read raises UnboundLocalError and the outer handler of line 1290 takes
\* over, whatever part of the text had arrived.
completion_of(call) ==
  IF call.kind = "returned" /\ call.text = "text" THEN "text" ELSE "fail"

\* generate_contract with the outcome of its model call told apart.
GenerateCall(r) ==
  /\ node[r] = "generate_code"
  /\ \E call \in GenerateCalls :
       LET s == internal_state[r]
           res == generate_contract(s, completion_of(call), calls[r].generate + 1)
       IN  /\ internal_state' = [internal_state EXCEPT ![r] = res.state]
           /\ node' = [node EXCEPT ![r] = NextNode("generate_code", res.goto)]
           /\ locals' = [locals EXCEPT ![r].validation_count =
                                          Get(s, "validation_count", s.validation_count, 0)]
           /\ calls' = [calls EXCEPT ![r].generate = @ + 1,
                                     ![r].completions = Append(@, call)]
  /\ UNCHANGED <<invoke_state, response_content, extracted,
               faiss_index, samples_dir, all_samples>>

ValidateContract(r) ==
  /\ node[r] = "validate"
  /\ \E reply \in ValidationReplies :
       internal_state' = [internal_state EXCEPT ![r] = validate_contract(internal_state[r], reply)]
  /\ node' = [node EXCEPT ![r] = "validation_router"]
  /\ UNCHANGED <<locals, calls, invoke_state, response_content, extracted,
               faiss_index, samples_dir, all_samples>>

ValidationRouter(r) ==
  /\ node[r] = "validation_router"
  /\ LET res == validation_router(internal_state[r])
     IN  /\ internal_state' = [internal_state EXCEPT ![r] = res.state]
         /\ node' = [node EXCEPT ![r] = NextNode("validate", res.route)]
  /\ UNCHANGED <<locals, calls, invoke_state, response_content, extracted,
               faiss_index, samples_dir, all_samples>>

\* ------------------------------------------------------------ test_contract
\* What one pass through the try block of the loop gets from packaging and
\* submitting the output: an exception ("raise"), or the exit of the curl
\* process with its return code and, for return code 0, whether the response
\* text starts with "TV" and whether it contains "error".
BuildResponses ==
  [kind : {"raise"}, returncode : {0}, tv : {FALSE}, error : {FALSE}]
    \cup [kind : {"exit"}, returncode : {1}, tv : {FALSE}, error : {FALSE}]
    \cup [kind : {"exit"}, returncode : {0}, tv : BOOLEAN, error : BOOLEAN]

\* The classification without the negation of the success prefix test.
BuildFailed_no_negation(resp) == resp.tv /\ resp.error

\* Line 1629: the response is taken as a failed build.
BuildFailed(resp) == (~resp.tv) /\ resp.error

\* The key sets of the JSON objects the model returns in <UPDATED_OUTPUT>.
FixKeySets == {OutputKeys, required_keys, {"contract", "state", "proto"}, {}}

\* The outcomes of the fix request: the model call raised; the reply has no
\* <UPDATED_OUTPUT> block; the block is a JSON object ("json") or a JSON list
\* ("json_list"); the block only parses after sanitising, to an object
\* ("sanitized") or to a list ("sanitized_list"); the block does not parse.
FixReplies ==
  [kind : {"raise", "noblock", "badjson", "json_list", "sanitized_list"}, keys : {{}}]
    \cup [kind : {"json", "sanitized"}, keys : FixKeySets]

\* An output that is a JSON list and not a dictionary.
NonObject == [k \in OutputKeys |-> File("list_value", 0)]

\* Lines 1816-1822 raise a TypeError when they store a missing key into a
\* list; the handler of line 1827 does not catch it.
ParseRaises(output, reply) ==
  /\ reply.kind = "json_list"
  /\ \E k \in required_keys : output[k] # NoFile

\* A parser that never stores the object it parsed.
ParseFixReply_discard(output, reply, n) == output

\* Lines 1802-1835: the output after parsing the reply of the fix request
\* made in cycle n.
ParseFixReply(output, reply, n) ==
  LET updated_output == [k \in OutputKeys |-> IF k \in reply.keys THEN File("fix", n) ELSE NoFile]
  IN  CASE reply.kind = "json" ->
             [k \in OutputKeys |->
                IF k \in required_keys /\ updated_output[k] = NoFile
                THEN output[k] ELSE updated_output[k]]
        [] reply.kind = "sanitized" -> updated_output
        [] reply.kind \in {"json_list", "sanitized_list"} -> NonObject
        [] OTHER -> output

\* test_contract reading the wrong counter on entry.
TestContractEnter_wrong_key(r) ==
  /\ node[r] = "test_contract"
  /\ locals[r].pc = "idle"
  /\ LET s == internal_state[r]
     IN  locals' = [locals EXCEPT ![r].pc = "loop",
                                  ![r].test_cycle_count = Get(s, "validation_count", s.validation_count, 0),
                                  ![r].test_results = NoTestResults]
  /\ UNCHANGED <<node, internal_state, calls, invoke_state, response_content, extracted,
               faiss_index, samples_dir, all_samples>>

\* Lines 1520-1522.
TestContractEnter(r) ==
  /\ node[r] = "test_contract"
  /\ locals[r].pc = "idle"
  /\ LET s == internal_state[r]
     IN  locals' = [locals EXCEPT ![r].pc = "loop",
                                  ![r].test_cycle_count = Get(s, "test_cycle_count", s.test_cycle_count, 0),
                                  ![r].test_results = NoTestResults]
  /\ UNCHANGED <<node, internal_state, calls, invoke_state, response_content, extracted,
               faiss_index, samples_dir, all_samples>>

\* A pass of the loop that puts the default output back when the call to the
\* build service fails.
BuildCycle_failure_resets_output(r) ==
  /\ node[r] = "test_contract"
  /\ locals[r].pc = "loop"
  /\ locals[r].test_cycle_count < max_cycles
  /\ \E resp \in BuildResponses :
       LET test_cycle_count == locals[r].test_cycle_count
           s == internal_state[r]
           output == Get(s, "output", s.output, EmptyDict)
           test_results == [passed |-> FALSE, build_output |-> "", errors |-> "none",
                            test_cycle |-> test_cycle_count + 1]
           submitted == Append(calls[r].build, [output |-> output, resp |-> resp])
       IN  \* output.items() (line 1575) raises when output is not a dictionary
           /\ output = NonObject => resp.kind = "raise"
           /\ internal_state' = [internal_state EXCEPT
                                   ![r].keys = @ \cup {"test_cycle_count"},
                                   ![r].test_cycle_count = test_cycle_count + 1,
                                   ![r].output = IF resp.kind = "raise" \/ resp.returncode # 0
                                                 THEN DefaultOutput ELSE @]
           /\ CASE resp.kind = "raise" ->
                     /\ locals' = [locals EXCEPT ![r].pc = "break",
                                      ![r].test_results = [test_results EXCEPT
                                          !.build_output = "Error during testing",
                                          !.errors = "exception"]]
                     /\ UNCHANGED calls
                [] resp.kind = "exit" /\ resp.returncode # 0 ->
                     /\ locals' = [locals EXCEPT ![r].pc = "break",
                                      ![r].test_results = [test_results EXCEPT
                                          !.build_output = "API call failed",
                                          !.errors = "stderr"]]
                     /\ calls' = [calls EXCEPT ![r].build = submitted]
                [] resp.kind = "exit" /\ resp.returncode = 0 /\ BuildFailed(resp) ->
                     /\ calls' = [calls EXCEPT ![r].build = submitted]
                     /\ IF test_cycle_count < max_cycles
                        THEN locals' = [locals EXCEPT ![r].pc = "fix",
                                          ![r].test_results = [test_results EXCEPT
                                              !.build_output = "response",
                                              !.errors = "error_lines"]]
                        ELSE locals' = [locals EXCEPT ![r].pc = "loop",
                                          ![r].test_cycle_count = test_cycle_count + 1,
                                          ![r].test_results = [test_results EXCEPT
                                              !.build_output = "response",
                                              !.errors = "error_lines"]]
                [] OTHER ->
                     /\ locals' = [locals EXCEPT ![r].pc = "break",
                                      ![r].test_results = [test_results EXCEPT
                                          !.passed = TRUE,
                                          !.build_output = "Build succeeded"]]
                     /\ calls' = [calls EXCEPT ![r].build = submitted]
  /\ UNCHANGED <<node, invoke_state, response_content, extracted,
               faiss_index, samples_dir, all_samples>>

\* Lines 1524-1640 and 1847-1870: one pass of the loop up to the point where
\* it leaves the loop or asks the model for a fix.
BuildCycle(r) ==
  /\ node[r] = "test_contract"
  /\ locals[r].pc = "loop"
  /\ locals[r].test_cycle_count < max_cycles
  /\ \E resp \in BuildResponses :
       LET test_cycle_count == locals[r].test_cycle_count
           s == internal_state[r]
           output == Get(s, "output", s.output, EmptyDict)
           test_results == [passed |-> FALSE, build_output |-> "", errors |-> "none",
                            test_cycle |-> test_cycle_count + 1]
           submitted == Append(calls[r].build, [output |-> output, resp |-> resp])
       IN  \* output.items() (line 1575) raises when output is not a dictionary
           /\ output = NonObject => resp.kind = "raise"
           /\ internal_state' = [internal_state EXCEPT
                                   ![r].keys = @ \cup {"test_cycle_count"},
                                   ![r].test_cycle_count = test_cycle_count + 1]
           /\ CASE resp.kind = "raise" ->
                     /\ locals' = [locals EXCEPT ![r].pc = "break",
                                      ![r].test_results = [test_results EXCEPT
                                          !.build_output = "Error during testing",
                                          !.errors = "exception"]]
                     /\ UNCHANGED calls
                [] resp.kind = "exit" /\ resp.returncode # 0 ->
                     /\ locals' = [locals EXCEPT ![r].pc = "break",
                                      ![r].test_results = [test_results EXCEPT
                                          !.build_output = "API call failed",
                                          !.errors = "stderr"]]
                     /\ calls' = [calls EXCEPT ![r].build = submitted]
                [] resp.kind = "exit" /\ resp.returncode = 0 /\ BuildFailed(resp) ->
                     /\ calls' = [calls EXCEPT ![r].build = submitted]
                     /\ IF test_cycle_count < max_cycles
                        THEN locals' = [locals EXCEPT ![r].pc = "fix",
                                          ![r].test_results = [test_results EXCEPT
                                              !.build_output = "response",
                                              !.errors = "error_lines"]]
                        ELSE locals' = [locals EXCEPT ![r].pc = "loop",
                                          ![r].test_cycle_count = test_cycle_count + 1,
                                          ![r].test_results = [test_results EXCEPT
                                              !.build_output = "response",
                                              !.errors = "error_lines"]]
                [] OTHER ->
                     /\ locals' = [locals EXCEPT ![r].pc = "break",
                                      ![r].test_results = [test_results EXCEPT
                                          !.passed = TRUE,
                                          !.build_output = "Build succeeded"]]
                     /\ calls' = [calls EXCEPT ![r].build = submitted]
  /\ UNCHANGED <<node, invoke_state, response_content, extracted,
               faiss_index, samples_dir, all_samples>>

\* A fix step that puts the default output in place when the reply holds no
\* object it can parse.
FixReply_unparsed_clears_output(r) ==
  /\ node[r] = "test_contract"
  /\ locals[r].pc = "fix"
  /\ \E reply \in FixReplies :
       /\ calls' = [calls EXCEPT ![r].fix = Append(@, reply)]
       /\ LET s == internal_state[r]
              test_cycle_count == locals[r].test_cycle_count
              output == Get(s, "output", s.output, EmptyDict)
          IN  IF reply.kind = "raise" \/ ParseRaises(output, reply)
              THEN /\ locals' = [locals EXCEPT ![r].pc = "break",
                                   ![r].test_results = [@ EXCEPT
                                       !.passed = FALSE,
                                       !.build_output = "Error during testing",
                                       !.errors = "exception"]]
                   /\ IF reply.kind = "raise"
                      THEN UNCHANGED internal_state
                      ELSE internal_state' = [internal_state EXCEPT
                                                ![r].keys = @ \cup {"suggested_fixes"},
                                                ![r].suggested_fixes = "reply"]
              ELSE /\ internal_state' = [internal_state EXCEPT
                                           ![r].keys = @ \cup {"suggested_fixes", "debug_info", "output"},
                                           ![r].suggested_fixes = "reply",
                                           ![r].output = IF reply.kind \in {"noblock", "badjson"}
                                                        THEN DefaultOutput
                                                        ELSE ParseFixReply(output, reply, test_cycle_count + 1)]
                   /\ locals' = [locals EXCEPT ![r].pc = "loop",
                                   ![r].test_cycle_count = test_cycle_count + 1]
  /\ UNCHANGED <<node, invoke_state, response_content, extracted,
               faiss_index, samples_dir, all_samples>>

\* Lines 1787-1845 and 1860-1868: the reply to the fix request arrives.
FixReply(r) ==
  /\ node[r] = "test_contract"
  /\ locals[r].pc = "fix"
  /\ \E reply \in FixReplies :
       /\ calls' = [calls EXCEPT ![r].fix = Append(@, reply)]
       /\ LET s == internal_state[r]
              test_cycle_count == locals[r].test_cycle_count
              output == Get(s, "output", s.output, EmptyDict)
          IN  IF reply.kind = "raise" \/ ParseRaises(output, reply)
              THEN /\ locals' = [locals EXCEPT ![r].pc = "break",
                                   ![r].test_results = [@ EXCEPT
                                       !.passed = FALSE,
                                       !.build_output = "Error during testing",
                                       !.errors = "exception"]]
                   /\ IF reply.kind = "raise"
                      THEN UNCHANGED internal_state
                      ELSE internal_state' = [internal_state EXCEPT
                                                ![r].keys = @ \cup {"suggested_fixes"},
                                                ![r].suggested_fixes = "reply"]
              ELSE /\ internal_state' = [internal_state EXCEPT
                                           ![r].keys = @ \cup {"suggested_fixes", "debug_info", "output"},
                                           ![r].suggested_fixes = "reply",
                                           ![r].output = ParseFixReply(output, reply, test_cycle_count + 1)]
                   /\ locals' = [locals EXCEPT ![r].pc = "loop",
                                   ![r].test_cycle_count = test_cycle_count + 1]
  /\ UNCHANGED <<node, invoke_state, response_content, extracted,
               faiss_index, samples_dir, all_samples>>

\* test_contract returning the default output and not the one it tested.
test_contract_return_default_output(s, test_results) ==
  [get_default_state EXCEPT
     !.keys = {"output", "analysis", "fixes", "codebase_insights", "test_results",
               "validation_results"},
     !.output = DefaultOutput,
     !.analysis = Get(s, "analysis", s.analysis, ""),
     !.fixes = Get(s, "fixes", s.fixes, ""),
     !.codebase_insights = Get(s, "codebase_insights", s.codebase_insights, "none"),
     !.test_results = test_results,
     !.validation_results = Get(s, "validation_result", s.validation_result, NoValidationResult)]

\* Lines 1872-1887: the state test_contract returns.  test_results is a local
\* that only the loop body binds: reading it unbound raises, and the
\* exception leaves the stage function.
test_contract_return(s, test_results) ==
  [get_default_state EXCEPT
     !.keys = {"output", "analysis", "fixes", "codebase_insights", "test_results",
               "validation_results"},
     !.output = Get(s, "output", s.output, EmptyDict),
     !.analysis = Get(s, "analysis", s.analysis, ""),
     !.fixes = Get(s, "fixes", s.fixes, ""),
     !.codebase_insights = Get(s, "codebase_insights", s.codebase_insights, "none"),
     !.test_results = test_results,
     !.validation_results = Get(s, "validation_result", s.validation_result, NoValidationResult)]

TestContractReturn(r) ==
  /\ node[r] = "test_contract"
  /\ \/ locals[r].pc = "break"
     \/ locals[r].pc = "loop" /\ locals[r].test_cycle_count >= max_cycles
  /\ IF locals[r].test_results = NoTestResults
     THEN /\ node' = [node EXCEPT ![r] = "raised"]
          /\ UNCHANGED internal_state
     ELSE /\ node' = [node EXCEPT ![r] = NextNode("test_contract", END)]
          /\ internal_state' = [internal_state EXCEPT
                                  ![r] = test_contract_return(internal_state[r], locals[r].test_results)]
  /\ locals' = [locals EXCEPT ![r].pc = "idle"]
  /\ UNCHANGED <<calls, invoke_state, response_content, extracted,
               faiss_index, samples_dir, all_samples>>

\* ------------------------------------------------- build-service responses
\* What the build service writes to the standard output of the curl process.
BuildTexts ==
  {"", "TVqQAAMAAAAEAAAA", "TVqQAAMA error", " TVqQAAMA Error CS0103",
   "Build FAILED: Error CS0103", "error CS0246: type not found", "Build timed out"}

\* Line 1629: response_text.strip().startswith("TV").
StartsWithTV(text) ==
  text \in {"TVqQAAMAAAAEAAAA", "TVqQAAMA error", " TVqQAAMA Error CS0103"}

\* Line 1629: "error" in response_text.lower().
HasErrorWord(text) ==
  text \in {"TVqQAAMA error", " TVqQAAMA Error CS0103", "Build FAILED: Error CS0103",
            "error CS0246: type not found"}

\* A reading of the response that looks for "error" in lower case only.
build_response_of_exact_case(text) ==
  [kind |-> "exit", returncode |-> 0, tv |-> StartsWithTV(text),
   error |-> text \in {"TVqQAAMA error", "error CS0246: type not found"}]

\* Lines 1625-1629: what test_contract reads in the output of a curl process
\* that exited with return code 0.
build_response_of(text) ==
  [kind |-> "exit", returncode |-> 0, tv |-> StartsWithTV(text), error |-> HasErrorWord(text)]

\* ------------------------------------------------------ the Artifact Extractor
\* Lines 1033-1288 of generate_contract: the scan of a completion for fenced
\* blocks.  A completion is a sequence of lines.  A line is a record: `fence`
\* says that the line holds the three-backtick marker, `text` is the line (for
\* a fence line, what follows the marker) and `n` tells apart the code lines
\* of different blocks.  The tests the scanner makes on a line are tables over
\* the line texts below.
Line(text, n) == [fence |-> FALSE, text |-> text, n |-> n]
FenceLine(tag) == [fence |-> TRUE, text |-> tag, n |-> 0]

\* Path comments in the form CODE_GENERATION_PROMPT asks for.
PromptPathComments ==
  {"// src/FooContract.cs", "// src/FooState.cs", "// src/Protobuf/contract/foo.proto",
   "// src/ContractReference.cs", "<!-- src/Foo.csproj -->", "// src/Helper.cs",
   "// src/README.md", "// src/ContractName.cs"}
\* A path comment without the space after the slashes.
BarePathComment == "//src/FooContract.cs"
PlaceholderLine == "namespace AElf.Contracts.ContractName"
LowerPlaceholderLine == "package contractname;"
ClassLine == "public class FooContract : FooContractContainer.FooContractBase"
ImportLine == "import \"aelf/options.proto\";"

CodeRoles == {"contract", "state", "proto", "reference", "project"}

\* Line 1112: "```" in line.
IsFence(line) == line.fence

\* Lines 1115-1121.
file_type_of(line) ==
  CASE line.text = "csharp"   -> "csharp"
    [] line.text = "protobuf" -> "proto"
    [] line.text = "xml"      -> "xml"
    [] OTHER                  -> ""

\* Line 1126: next_line.startswith("//") or next_line.startswith("<!--").
StartsComment(line) ==
  /\ ~line.fence
  /\ line.text \in PromptPathComments \cup {BarePathComment}

\* Lines 1127-1132: the comment markers removed from the line.
file_path_of(line) ==
  CASE line.text = "// src/FooContract.cs"              -> "src/FooContract.cs"
    [] line.text = "// src/FooState.cs"                 -> "src/FooState.cs"
    [] line.text = "// src/Protobuf/contract/foo.proto" -> "src/Protobuf/contract/foo.proto"
    [] line.text = "// src/ContractReference.cs"        -> "src/ContractReference.cs"
    [] line.text = "<!-- src/Foo.csproj -->"            -> "src/Foo.csproj"
    [] line.text = "// src/Helper.cs"                   -> "src/Helper.cs"
    [] line.text = "// src/README.md"                   -> "src/README.md"
    [] line.text = "//src/FooContract.cs"               -> "//src/FooContract.cs"
    [] line.text = "// src/ContractName.cs"             -> "src/ContractName.cs"
    [] OTHER                                            -> ""

\* Lines 1135-1143 in the other order: every path ending in .cs is a
\* contract file.
component_of_suffix_first(file_path) ==
  CASE file_path \in {"src/FooContract.cs", "src/FooState.cs", "src/ContractReference.cs",
                      "src/Helper.cs", "//src/FooContract.cs",
                      "src/ContractName.cs"}                         -> "cs"
    [] file_path = "src/Foo.csproj"                                   -> "project"
    [] file_path = "src/Protobuf/contract/foo.proto"                  -> "proto"
    [] OTHER                                                          -> "none"

\* Lines 1135-1143: the component a file path maps to; "cs" is a path that
\* only ends in .cs, "none" a path no test matches.
component_of(file_path) ==
  CASE file_path = "src/FooState.cs"                                  -> "state"
    [] file_path = "src/Foo.csproj"                                   -> "project"
    [] file_path = "src/ContractReference.cs"                         -> "reference"
    [] file_path = "src/Protobuf/contract/foo.proto"                  -> "proto"
    [] file_path \in {"src/FooContract.cs", "src/Helper.cs",
                      "//src/FooContract.cs", "src/ContractName.cs"}  -> "cs"
    [] OTHER                                                          -> "none"

\* Lines 1184-1185: the line starts with "// " or "<!-- " and holds "src/" or
\* ends in .cs, .proto or .csproj.
IsPathCommentLine(line) == (~line.fence) /\ line.text \in PromptPathComments

\* Lines 1266-1269: the line starts with "// src/", "// Src/", "<!-- src/" or
\* "<!-- Src/".
StartsWithSrcComment(line) == (~line.fence) /\ line.text \in PromptPathComments

\* str.strip() on the joined content: blank lines at both ends go.
RECURSIVE lstrip(_)
lstrip(content) ==
  IF content # <<>> /\ Head(content).text = "" THEN lstrip(Tail(content)) ELSE content

RECURSIVE rstrip(_)
rstrip(content) ==
  IF content # <<>> /\ content[Len(content)].text = ""
  THEN rstrip(SubSeq(content, 1, Len(content) - 1)) ELSE content

strip(content) == rstrip(lstrip(content))

\* Lines 1049-1056: the name a class definition line gives.
ClassNameOf(line) == IF (~line.fence) /\ line.text = ClassLine THEN "Foo" ELSE ""

\* Lines 1060-1067: the name a path comment line gives.
PathNameOf(line) ==
  CASE line.fence                                                      -> ""
    [] line.text \in {"// src/FooContract.cs", "//src/FooContract.cs"} -> "FooContract"
    [] line.text = "// src/Helper.cs"                                  -> "Helper"
    [] line.text = "// src/ContractName.cs"                            -> "ContractName"
    [] OTHER                                                           -> ""

RECURSIVE FirstName(_, _, _)
FirstName(lines, i, class) ==
  IF i > Len(lines) THEN ""
  ELSE LET name == IF class THEN ClassNameOf(lines[i]) ELSE PathNameOf(lines[i])
       IN  IF name # "" THEN name ELSE FirstName(lines, i + 1, class)

\* Lines 1045-1071.
contract_name_of(lines) ==
  IF FirstName(lines, 1, TRUE) # "" THEN FirstName(lines, 1, TRUE)
  ELSE IF FirstName(lines, 1, FALSE) # "" THEN FirstName(lines, 1, FALSE)
  ELSE "AELFContract"

\* str.lower() on the names above.
lower(name) ==
  CASE name = "Foo"          -> "foo"
    [] name = "FooContract"  -> "foocontract"
    [] name = "Helper"       -> "helper"
    [] name = "AELFContract" -> "aelfcontract"
    [] name = "ContractName" -> "contractname"

\* A substitution that leaves the lower-case placeholder where it is.
update_contract_name_references_upper_only(content, path, contract_name) ==
  [content |-> [i \in 1..Len(content) |->
                  IF content[i].text = PlaceholderLine
                  THEN [content[i] EXCEPT !.text = "namespace AElf.Contracts." \o contract_name]
                  ELSE content[i]],
   path    |-> CASE path = "src/Foo.csproj"      -> "src/" \o contract_name \o ".csproj"
                 [] path = "src/ContractName.cs" -> "src/" \o contract_name \o ".cs"
                 [] OTHER                        -> path]

\* Lines 1078-1093: the placeholders "ContractName" and "contractname" of a
\* content are replaced by the name and its lower case; a path ending in
\* .csproj becomes the project path, another path has its placeholders
\* replaced.
update_contract_name_references(content, path, contract_name) ==
  [content |-> [i \in 1..Len(content) |->
                  CASE content[i].text = PlaceholderLine ->
                         [content[i] EXCEPT !.text = "namespace AElf.Contracts." \o contract_name]
                    [] content[i].text = LowerPlaceholderLine ->
                         [content[i] EXCEPT !.text = "package " \o lower(contract_name) \o ";"]
                    [] OTHER -> content[i]],
   path    |-> CASE path = "src/Foo.csproj"      -> "src/" \o contract_name \o ".csproj"
                 [] path = "src/ContractName.cs" -> "src/" \o contract_name \o ".cs"
                 [] OTHER                        -> path]

\* A scan that starts with the project path under a fixed name.
InitScan_literal_project_path(contract_name) ==
  [ components |->
      [role \in CodeRoles |->
         [content   |-> <<>>,
          file_type |-> "",
          path      |-> CASE role = "project"   -> "src/Foo.csproj"
                          [] role = "contract"  -> "src/" \o contract_name \o "Contract.cs"
                          [] role = "state"     -> "src/" \o contract_name \o "State.cs"
                          [] role = "proto"     -> "src/Protobuf/contract/" \o lower(contract_name) \o ".proto"
                          [] role = "reference" -> "src/ContractReference.cs"]],
    contract_name     |-> contract_name,
    current_component |-> "none",
    current_idx       |-> 0,
    current_content   |-> <<>>,
    in_code_block     |-> FALSE,
    current_file_type |-> "",
    found_components  |-> {},
    contract_files    |-> <<>> ]

\* Lines 1033-1041 and 1095-1108: the state of the scan before the first line.
InitScan(contract_name) ==
  [ components |->
      [role \in CodeRoles |->
         [content   |-> <<>>,
          file_type |-> "",
          path      |-> CASE role = "project"   -> "src/" \o contract_name \o ".csproj"
                          [] role = "contract"  -> "src/" \o contract_name \o "Contract.cs"
                          [] role = "state"     -> "src/" \o contract_name \o "State.cs"
                          [] role = "proto"     -> "src/Protobuf/contract/" \o lower(contract_name) \o ".proto"
                          [] role = "reference" -> "src/ContractReference.cs"]],
    contract_name     |-> contract_name,
    current_component |-> "none",
    current_idx       |-> 0,
    current_content   |-> <<>>,
    in_code_block     |-> FALSE,
    current_file_type |-> "",
    found_components  |-> {},
    contract_files    |-> <<>> ]

\* An opening fence that takes every .cs block for the contract role.
OpenBlock_every_cs_is_contract(sc, lines, i) ==
  LET file_type == file_type_of(lines[i])
      annotated == i + 1 <= Len(lines) /\ StartsComment(lines[i + 1])
      file_path == IF annotated THEN file_path_of(lines[i + 1]) ELSE ""
      component == IF annotated THEN component_of(file_path) ELSE "none"
      sc1 == [sc EXCEPT !.current_file_type = file_type, !.in_code_block = TRUE]
  IN  CASE component = "cs" ->
             [sc1 EXCEPT !.current_component = "contract",
                         !.found_components = @ \cup {"contract"},
                         !.components["contract"].file_type = file_type]
        [] component \in CodeRoles ->
             [sc1 EXCEPT !.current_component = component,
                         !.components[component].file_type = file_type]
        [] OTHER -> sc1

\* Lines 1113-1163: a fence line outside a block.
OpenBlock(sc, lines, i) ==
  LET file_type == file_type_of(lines[i])
      annotated == i + 1 <= Len(lines) /\ StartsComment(lines[i + 1])
      file_path == IF annotated THEN file_path_of(lines[i + 1]) ELSE ""
      component == IF annotated THEN component_of(file_path) ELSE "none"
      sc1 == [sc EXCEPT !.current_file_type = file_type, !.in_code_block = TRUE]
  IN  CASE component = "cs" /\ "contract" \in sc.found_components ->
             [sc1 EXCEPT !.current_component = "additional_contract",
                         !.current_idx = Len(sc.contract_files) + 1,
                         !.contract_files = Append(@, [content |-> <<>>, file_type |-> file_type,
                                                       path |-> file_path])]
        [] component = "cs" ->
             [sc1 EXCEPT !.current_component = "contract",
                         !.found_components = @ \cup {"contract"},
                         !.components["contract"].file_type = file_type]
        [] component \in CodeRoles ->
             [sc1 EXCEPT !.current_component = component,
                         !.components[component].file_type = file_type]
        [] OTHER -> sc1

\* Lines 1165-1178: a fence line inside a block.
CloseBlock(sc) ==
  LET code_content == strip(sc.current_content)
      sc1 == CASE sc.current_component = "none" \/ sc.current_content = <<>> -> sc
               [] sc.current_component = "additional_contract" ->
                    [sc EXCEPT !.contract_files[sc.current_idx].content = code_content]
               [] OTHER ->
                    [sc EXCEPT !.components[sc.current_component].content =
                       update_contract_name_references(code_content, "", sc.contract_name).content]
  IN  [sc1 EXCEPT !.current_content = <<>>, !.current_component = "none",
                  !.in_code_block = FALSE]

\* Lines 1181-1187: a line that is not a fence.
CollectLine(sc, line) ==
  IF sc.in_code_block /\ sc.current_component # "none"
  THEN IF sc.current_content = <<>> /\ IsPathCommentLine(line)
       THEN sc
       ELSE [sc EXCEPT !.current_content = Append(@, line)]
  ELSE sc

\* Lines 1110-1187: the loop over the lines, from line i on.
RECURSIVE Scan(_, _, _)
Scan(sc, lines, i) ==
  IF i > Len(lines) THEN sc
  ELSE Scan(IF IsFence(lines[i])
            THEN IF sc.in_code_block THEN CloseBlock(sc) ELSE OpenBlock(sc, lines, i)
            ELSE CollectLine(sc, lines[i]),
            lines, i + 1)

\* A scan that commits the block still open at the end of the completion.
scan_completion_flush(lines) ==
  LET sc == Scan(InitScan(contract_name_of(lines)), lines, 1)
  IN  IF sc.in_code_block THEN CloseBlock(sc) ELSE sc

\* Lines 1045-1187: the scan of a whole completion.
scan_completion(lines) == Scan(InitScan(contract_name_of(lines)), lines, 1)

\* The replies of generate_proto_file_content, which never raises: the text
\* the model wrote or the template of its own error path.
ProtoReplies == {"generated", "template"}

\* Lines 1189-1245: the metadata list: the additional contract files, then
\* one generated file for every aelf/ import of the proto content.
additional_files_of(sc, proto_reply) ==
  LET contract_files ==
        [i \in 1..Len(sc.contract_files) |->
           LET updated == update_contract_name_references(sc.contract_files[i].content,
                                                         sc.contract_files[i].path,
                                                         sc.contract_name)
           IN  [content |-> updated.content, file_type |-> sc.contract_files[i].file_type,
                path |-> updated.path]]
      proto_content == sc.components["proto"].content
  IN  IF \E i \in 1..Len(proto_content) : proto_content[i].text = ImportLine
      THEN Append(contract_files,
                  [content |-> <<Line(proto_reply, 0)>>, file_type |-> "proto",
                   path |-> "src/Protobuf/reference/aelf/options.proto"])
      ELSE contract_files

\* Lines 1258-1270.
remove_commented_filename(component) ==
  IF component.content # <<>> /\ StartsWithSrcComment(Head(component.content))
  THEN [component EXCEPT !.content = Tail(@)]
  ELSE component

\* What the extractor has not produced yet.
NotExtracted ==
  [done |-> FALSE, goto |-> "", contract_name |-> "",
   output |-> [contract |-> [content |-> <<>>, file_type |-> "", path |-> ""],
               state |-> [content |-> <<>>, file_type |-> "", path |-> ""],
               proto |-> [content |-> <<>>, file_type |-> "", path |-> ""],
               reference |-> [content |-> <<>>, file_type |-> "", path |-> ""],
               project |-> [content |-> <<>>, file_type |-> "", path |-> ""],
               metadata |-> <<>>, analysis |-> ""]]

\* Lines 1198-1288: the output generate_contract stores after the scan, and
\* the node it names.
output_of_scan(sc, proto_reply) ==
      [done |-> TRUE, goto |-> "validate", contract_name |-> sc.contract_name,
       output |-> [contract  |-> remove_commented_filename(sc.components["contract"]),
                   state     |-> remove_commented_filename(sc.components["state"]),
                   proto     |-> remove_commented_filename(sc.components["proto"]),
                   reference |-> remove_commented_filename(sc.components["reference"]),
                   project   |-> remove_commented_filename(sc.components["project"]),
                   metadata  |-> additional_files_of(sc, proto_reply),
                   analysis  |-> "analysis"]]

\* Lines 1033-1288: what generate_contract makes of a non-empty completion.
\* No statement after line 1031 raises.
extract_artifacts(lines, proto_reply) == output_of_scan(scan_completion(lines), proto_reply)

\* The fenced blocks the model writes, each a fence line with a language tag,
\* a first line (a path comment, or none) and a body.
BlockKinds ==
  { [tag |-> "csharp",   ann |-> "// src/FooContract.cs",              body |-> "code"],
    [tag |-> "csharp",   ann |-> "// src/FooState.cs",                 body |-> "code"],
    [tag |-> "protobuf", ann |-> "// src/Protobuf/contract/foo.proto", body |-> "code"],
    [tag |-> "xml",      ann |-> "<!-- src/Foo.csproj -->",            body |-> "code"],
    [tag |-> "csharp",   ann |-> "// src/ContractReference.cs",        body |-> "code"],
    [tag |-> "csharp",   ann |-> "// src/Helper.cs",                   body |-> "code"],
    [tag |-> "",         ann |-> "// src/README.md",                   body |-> "code"],
    [tag |-> "csharp",   ann |-> "",                                   body |-> "code"],
    [tag |-> "protobuf", ann |-> "",                                   body |-> "code"],
    [tag |-> "csharp",   ann |-> "// src/FooContract.cs",              body |-> "empty"],
    [tag |-> "csharp",   ann |-> "// src/FooState.cs",                 body |-> "repeat"],
    [tag |-> "protobuf", ann |-> "// src/Protobuf/contract/foo.proto", body |-> "echo"],
    [tag |-> "csharp",   ann |-> "// src/FooContract.cs",              body |-> "placeholder"],
    [tag |-> "csharp",   ann |-> "// src/FooContract.cs",              body |-> "class"],
    [tag |-> "protobuf", ann |-> "// src/Protobuf/contract/foo.proto", body |-> "import"],
    [tag |-> "csharp",   ann |-> "//src/FooContract.cs",               body |-> "code"],
    [tag |-> "csharp",   ann |-> "// src/FooState.cs",                 body |-> "blank"],
    [tag |-> "csharp",   ann |-> "// src/ContractName.cs",             body |-> "lower_placeholder"] }

\* The lines of the block written at position i of a completion; its code
\* line carries i.
BodyLines(block, i) ==
  CASE block.body = "code"        -> <<Line("code", i)>>
    [] block.body = "empty"       -> <<>>
    [] block.body = "blank"       -> <<Line("", 0)>>
    [] block.body = "repeat"      -> <<Line(block.ann, 0), Line("code", i)>>
    [] block.body = "echo"        -> <<Line("", 0), Line(block.ann, 0), Line("code", i), Line("", 0)>>
    [] block.body = "placeholder" -> <<Line(PlaceholderLine, 0), Line("code", i)>>
    [] block.body = "lower_placeholder" -> <<Line(LowerPlaceholderLine, 0), Line("code", i)>>
    [] block.body = "class"       -> <<Line(ClassLine, 0), Line("code", i)>>
    [] block.body = "import"      -> <<Line(ImportLine, 0), Line("code", i)>>

BlockLines(block, i, closed) ==
  <<FenceLine(block.tag)>>
    \o (IF block.ann = "" THEN <<>> ELSE <<Line(block.ann, 0)>>)
    \o BodyLines(block, i)
    \o (IF closed THEN <<FenceLine("")>> ELSE <<>>)

\* The completion made of the given blocks after a line of prose; the last
\* block lacks its closing fence when `terminated` is false.
RECURSIVE CompletionLines(_, _, _)
CompletionLines(blocks, i, terminated) ==
  IF i > Len(blocks) THEN <<>>
  ELSE BlockLines(blocks[i], i, terminated \/ i < Len(blocks))
         \o CompletionLines(blocks, i + 1, terminated)

Completions ==
  { <<Line("Here are the files:", 0)>> \o CompletionLines(blocks, 1, terminated) :
      blocks \in UNION { [1..k -> BlockKinds] : k \in 0..MaxBlocks },
      terminated \in BOOLEAN }

\* generate_contract from the arrival of a non-empty completion on.
ExtractArtifacts ==
  /\ ~extracted.done
  /\ LET sc == scan_completion(response_content)
     IN  \E proto_reply \in ProtoReplies : extracted' = output_of_scan(sc, proto_reply)
  /\ UNCHANGED <<node, internal_state, locals, calls, invoke_state, response_content,
               faiss_index, samples_dir, all_samples>>

\* A pass of the loop of test_contract in which the curl process exits with
\* return code 0 and the next text of response_content on its output.
BuildText(r) ==
  /\ Len(calls[r].build) < Len(response_content)
  /\ BuildCycle(r)
  /\ Len(calls'[r].build) = Len(calls[r].build) + 1
  /\ calls'[r].build[Len(calls'[r].build)].resp =
       build_response_of(response_content[Len(calls'[r].build)].text)

\* ------------------------------------------------------ validation feedback
\* The lines a validation feedback is made of.  The tests validate_contract
\* makes on a line are tables over these texts.
FeedbackLines ==
  {"", "The contract follows the AElf conventions.",
   "1. Critical issues: the owner guard is missing.",
   "No Issues Found in this category.",
   "The fee parameter is invalid.",
   "You should add an owner guard."}

\* Line 1411: the lower-cased line holds "issue", "error", "problem" or
\* "missing".
HasIssueWord(line) ==
  line.text \in {"1. Critical issues: the owner guard is missing.",
                 "No Issues Found in this category."}

\* Lines 1421-1422: the lower-cased text holds "error", "missing", "invalid",
\* "incorrect", "problem" or "issue".
HasCriticalWord(line) ==
  line.text \in {"1. Critical issues: the owner guard is missing.",
                 "No Issues Found in this category.",
                 "The fee parameter is invalid."}

\* Line 1428: the lower-cased text holds "no issues found".
HasMarker(line) == line.text = "No Issues Found in this category."

\* Lines 1404-1424: the issue lines of a feedback, or one entry for a
\* critical keyword found in a feedback without issue lines.
validation_results(feedback) ==
  LET explicit == SelectSeq(feedback, HasIssueWord)
  IN  IF explicit # <<>> THEN explicit
      ELSE IF \E i \in 1..Len(feedback) : HasCriticalWord(feedback[i])
           THEN <<Line("Potential issue detected", 0)>>
           ELSE <<>>

\* A reading of the feedback that looks for the marker as it is spelled in
\* the prompt's lower case only.
reply_of_feedback_exact_case(content) ==
  LET feedback == strip(content)
  IN  IF feedback = <<>>
      THEN [kind |-> "empty", issues |-> FALSE, affirmative |-> FALSE]
      ELSE [kind |-> "feedback",
            issues |-> validation_results(feedback) # <<>>,
            affirmative |-> \E i \in 1..Len(feedback) :
                               feedback[i].text = "no issues found in this category."]

\* Lines 1396-1430: what validate_contract reads in the completion of the
\* validation call: nothing (the text is empty once stripped), or whether
\* issues were extracted and whether the marker is there.
reply_of_feedback(content) ==
  LET feedback == strip(content)
  IN  IF feedback = <<>>
      THEN [kind |-> "empty", issues |-> FALSE, affirmative |-> FALSE]
      ELSE [kind |-> "feedback",
            issues |-> validation_results(feedback) # <<>>,
            affirmative |-> \E i \in 1..Len(feedback) : HasMarker(feedback[i])]

\* The feedback texts of at most MaxFeedbackLines lines.
FeedbackTexts ==
  UNION { [1..k -> {Line(l, 0) : l \in FeedbackLines}] : k \in 0..MaxFeedbackLines }

\* validate_contract on the completion held in response_content; the model
\* call returns it or raises.
ValidateFeedback(r) ==
  /\ node[r] = "validate"
  /\ \E raised \in BOOLEAN :
       LET reply == IF raised
                    THEN [kind |-> "raise", issues |-> FALSE, affirmative |-> FALSE]
                    ELSE reply_of_feedback(response_content)
       IN  internal_state' =
             [internal_state EXCEPT ![r] = validate_contract(internal_state[r], reply)]
  /\ node' = [node EXCEPT ![r] = "validation_router"]
  /\ UNCHANGED <<locals, calls, invoke_state, response_content, extracted,
               faiss_index, samples_dir, all_samples>>

\* ---------------------------------------------------------------- retrieval
\* The persisted index: absent, present but failing to load, or loadable.
IndexStates == {"missing", "corrupt", "valid"}

\* The corpus directory: holding documents to index, holding none (no file
\* with an indexed extension, or only blank and unreadable ones), or absent.
CorpusStates == {"docs", "empty", "missing"}

\* RAG_CONFIG["retrieval_k"].
retrieval_k == 5

\* What similarity_search returns: the sources of the chunks found, several
\* chunks of one source included.
SearchResults == {<<>>, <<1, 1, 2>>, <<2, 3>>}

\* What the services do while one analyze_codebase retrieves: get_embeddings
\* returns or raises, the load and test query of an index that is there
\* succeed or raise, building and saving a new index succeeds or raises.
ServiceOutcomes == [embeddings : BOOLEAN, load : BOOLEAN, build : BOOLEAN]

\* What the calls of one query do: the services, and the docs the search
\* returns.
QueryOutcome(services, docs) ==
  [embeddings |-> services.embeddings, load |-> services.load, build |-> services.build,
   docs |-> docs]

\* initialize_rag_index that gives up when the persisted index does not load.
initialize_rag_index_no_rebuild(index, corpus, env) ==
  CASE ~env.embeddings ->
         [raised |-> TRUE, vectorstore |-> "none", index |-> index]
    [] index = "valid" /\ env.load ->
         [raised |-> FALSE, vectorstore |-> "loaded", index |-> index]
    [] index # "missing" ->
         [raised |-> TRUE, vectorstore |-> "none", index |-> index]
    [] corpus = "docs" /\ env.build ->
         [raised |-> FALSE, vectorstore |-> "rebuilt", index |-> "valid"]
    [] OTHER ->
         [raised |-> TRUE, vectorstore |-> "none", index |-> index]

\* Lines 208-363: the vector store of one retrieval and the persisted index it
\* leaves.  An index that is there is loaded (227-241); one that is missing or
\* fails to load is built from the corpus and saved (242-356); a missing
\* corpus (250-252), no document (324-326) and any other exception are raised
\* to the caller (358-361).
initialize_rag_index(index, corpus, env) ==
  CASE ~env.embeddings ->
         [raised |-> TRUE, vectorstore |-> "none", index |-> index]
    [] index = "valid" /\ env.load ->
         [raised |-> FALSE, vectorstore |-> "loaded", index |-> index]
    [] corpus = "docs" /\ env.build ->
         [raised |-> FALSE, vectorstore |-> "rebuilt", index |-> "valid"]
    [] OTHER ->
         [raised |-> TRUE, vectorstore |-> "none", index |-> index]

\* A retrieval that returns the docs of the search whether or not there is a
\* vector store to search.
retrieve_relevant_samples_without_store(index, corpus, env) ==
  LET store == initialize_rag_index(index, corpus, env)
  IN  [samples     |-> env.docs,
       vectorstore |-> store.vectorstore,
       index       |-> store.index]

\* Lines 365-415: the samples of one query; every exception is caught and
\* gives no sample.
retrieve_relevant_samples(index, corpus, env) ==
  LET store == initialize_rag_index(index, corpus, env)
  IN  [samples     |-> IF store.raised THEN <<>> ELSE env.docs,
       vectorstore |-> store.vectorstore,
       index       |-> store.index]

\* Lines 688-696: the samples of one query whose source is not held yet.
RECURSIVE add_new_samples(_, _)
add_new_samples(samples, held) ==
  IF samples = <<>> THEN held
  ELSE add_new_samples(Tail(samples),
                       IF \E j \in 1..Len(held) : held[j] = Head(samples)
                       THEN held ELSE Append(held, Head(samples)))

\* Lines 682-709: the loop over the queries from query i on; docs[i] is what
\* the search of query i returns.  stores records the vector store each query
\* got.
RECURSIVE retrieval_loop(_, _, _, _, _, _, _)
retrieval_loop(services, docs, i, index, corpus, held, stores) ==
  IF i > Len(docs) THEN [all_samples |-> held, index |-> index, stores |-> stores]
  ELSE LET got  == retrieve_relevant_samples(index, corpus, QueryOutcome(services, docs[i]))
           more == add_new_samples(got.samples, held)
       IN  IF Len(more) >= retrieval_k * 2
           THEN [all_samples |-> more, index |-> got.index,
                 stores |-> Append(stores, got.vectorstore)]
           ELSE retrieval_loop(services, docs, i + 1, got.index, corpus, more,
                               Append(stores, got.vectorstore))

\* No retrieval in progress, over a loadable index and a corpus with documents.
RagIdle ==
  /\ faiss_index = "valid"
  /\ samples_dir = "docs"
  /\ all_samples = [r \in Runs |-> <<>>]

\* A retrieval that keeps the retrieved samples in one place for all runs.
RetrieveSamples_global_samples(r) ==
  /\ node[r] = "analyze_codebase"
  /\ locals[r].pc = "idle"
  /\ \E n \in 1..MaxQueries, services \in ServiceOutcomes :
     \E docs \in [1..n -> SearchResults] :
       LET res == retrieval_loop(services, docs, 1, faiss_index, samples_dir, <<>>, <<>>)
       IN  /\ all_samples' = [o \in Runs |-> res.all_samples]
           /\ faiss_index' = res.index
           /\ calls' = [calls EXCEPT ![r].retrieve =
                          Append(@, [index |-> faiss_index, services |-> services,
                                     stores |-> res.stores])]
  /\ locals' = [locals EXCEPT ![r].pc = "synthesis"]
  /\ UNCHANGED <<node, internal_state, invoke_state, response_content, extracted, samples_dir>>

\* analyze_codebase up to its synthesis call (lines 590-722): the queries are
\* retrieved one after the other without the function being suspended.
RetrieveSamples(r) ==
  /\ node[r] = "analyze_codebase"
  /\ locals[r].pc = "idle"
  /\ \E n \in 1..MaxQueries, services \in ServiceOutcomes :
     \E docs \in [1..n -> SearchResults] :
       LET res == retrieval_loop(services, docs, 1, faiss_index, samples_dir, <<>>, <<>>)
       IN  /\ all_samples' = [all_samples EXCEPT ![r] = res.all_samples]
           /\ faiss_index' = res.index
           /\ calls' = [calls EXCEPT ![r].retrieve =
                          Append(@, [index |-> faiss_index, services |-> services,
                                     stores |-> res.stores])]
  /\ locals' = [locals EXCEPT ![r].pc = "synthesis"]
  /\ UNCHANGED <<node, internal_state, invoke_state, response_content, extracted, samples_dir>>

\* What a search over a large corpus returns: up to retrieval_k chunks, of
\* sources other queries found or of new ones.
LargeSearchResults ==
  {<<>>, <<1, 1, 2>>, <<2, 3, 4, 5, 6>>, <<7, 8, 9, 10>>, <<11, 12, 13, 14, 15>>}

\* The services answer every call of the retrieval.
ServicesUp == [embeddings |-> TRUE, load |-> TRUE, build |-> TRUE]

\* analyze_codebase up to its synthesis call (lines 590-722) over a large
\* corpus with the services up.
MergeSamples(r) ==
  /\ node[r] = "analyze_codebase"
  /\ locals[r].pc = "idle"
  /\ \E n \in 1..MaxMergeQueries :
     \E docs \in [1..n -> LargeSearchResults] :
       LET res == retrieval_loop(ServicesUp, docs, 1, faiss_index, samples_dir, <<>>, <<>>)
       IN  /\ all_samples' = [all_samples EXCEPT ![r] = res.all_samples]
           /\ faiss_index' = res.index
           /\ calls' = [calls EXCEPT ![r].retrieve =
                          Append(@, [index |-> faiss_index, services |-> ServicesUp,
                                     stores |-> res.stores])]
  /\ locals' = [locals EXCEPT ![r].pc = "synthesis"]
  /\ UNCHANGED <<node, internal_state, invoke_state, response_content, extracted, samples_dir>>

\* analyze_codebase from its synthesis call on (lines 723-950).
SynthesizeInsights(r) ==
  /\ node[r] = "analyze_codebase"
  /\ locals[r].pc = "synthesis"
  /\ \E synthesis \in {"text", "empty", "raise"} :
       LET outcome == [retrieval |-> IF all_samples[r] = <<>> THEN "failed" ELSE "samples",
                       synthesis |-> synthesis]
           res     == analyze_codebase(internal_state[r], outcome)
       IN  /\ internal_state' = [internal_state EXCEPT ![r] = res.state]
           /\ node' = [node EXCEPT ![r] = NextNode("analyze_codebase", res.goto)]
           /\ calls' = [calls EXCEPT ![r].analyze = Append(@, outcome)]
  /\ locals' = [locals EXCEPT ![r].pc = "idle"]
  /\ UNCHANGED <<invoke_state, response_content, extracted, faiss_index, samples_dir, all_samples>>

\* --------------------------------------------------------------- front door
\* The channels of AgentState (types.py 45-48): the keys of the dictionary
\* graph.ainvoke returns.
AgentStateKeys == {"input", "generate"}

\* What graph.ainvoke gives back for run r: the values of the channels, or the
\* exception that left a stage function.
ainvoke_result(r) ==
  [raised |-> node[r] = "raised", keys |-> AgentStateKeys, generate |-> internal_state[r]]

\* demo.py 15-40, POST /generate: the handler reads result["output"], and any
\* exception, the KeyError of a missing key included, becomes an answer with
\* status 500.
post_generate(result) ==
  IF result.raised \/ "output" \notin result.keys
  THEN [status_code |-> 500, body |-> NoFile]
  ELSE [status_code |-> 200, body |-> result.generate.output]

\* ------------------------------------------------------------ specification
Step(r) ==
  \/ AnalyzeRequirements(r)
  \/ AnalyzeCodebase(r)
  \/ GenerateContract(r)
  \/ ValidateContract(r)
  \/ ValidationRouter(r)
  \/ TestContractEnter(r)
  \/ BuildCycle(r)
  \/ FixReply(r)
  \/ TestContractReturn(r)

\* One run, started as the front door and the tests start it: the default
\* state, with a validation_count the caller chose.  Run 2 is not started.
Init ==
  /\ \E c \in 0..MaxInitCount :
       invoke_state = [r \in Runs |->
          IF r = 1 THEN [get_default_state EXCEPT !.validation_count = c]
          ELSE get_default_state]
  /\ internal_state = invoke_state
  /\ node = [r \in Runs |-> IF r = 1 THEN "analyze" ELSE "idle"]
  /\ locals = [r \in Runs |-> NoLocals]
  /\ calls = [r \in Runs |-> NoCalls]
  /\ response_content = <<>>
  /\ extracted = NotExtracted
  /\ RagIdle

Next == \E r \in Runs : Step(r)

Spec == Init /\ [][Next]_vars

\* Every stage function returns once its external calls have returned or
\* timed out, and the engine then runs the next node.
FairSpec == Spec /\ WF_vars(Next)

\* One run started with an input state of the caller's choice: the keys
\* test_contract reads on entry may already be there.
EntryInit ==
  /\ \E c \in 0..MaxInitCount, t \in 0..MaxEntryCycles, has_cycles \in BOOLEAN :
       invoke_state = [r \in Runs |->
          IF r = 1
          THEN [get_default_state EXCEPT
                  !.validation_count = c,
                  !.keys = IF has_cycles THEN @ \cup {"test_cycle_count"} ELSE @,
                  !.test_cycle_count = IF has_cycles THEN t ELSE 0]
          ELSE get_default_state]
  /\ internal_state = invoke_state
  /\ node = [r \in Runs |-> IF r = 1 THEN "analyze" ELSE "idle"]
  /\ locals = [r \in Runs |-> NoLocals]
  /\ calls = [r \in Runs |-> NoCalls]
  /\ response_content = <<>>
  /\ extracted = NotExtracted
  /\ RagIdle

EntrySpec == EntryInit /\ [][Next]_vars

\* Two runs started with the same state and already past AnalyzeCodebase go
\* through the Generate -> Validate loop independently of each other; their
\* validation outcomes differ freely.
PairInit ==
  /\ \E c \in 0..MaxInitCount, completion \in {"text", "empty", "raise"},
        outcome \in AnalyzeOutcomes :
       LET s0 == [get_default_state EXCEPT !.validation_count = c]
           s1 == analyze_codebase(analyze_requirements(s0, completion).state, outcome).state
       IN  /\ invoke_state = [r \in Runs |-> s0]
           /\ internal_state = [r \in Runs |-> s1]
  /\ node = [r \in Runs |-> "generate_code"]
  /\ locals = [r \in Runs |-> NoLocals]
  /\ calls = [r \in Runs |-> NoCalls]
  /\ response_content = <<>>
  /\ extracted = NotExtracted
  /\ RagIdle

PairNext == \E r \in Runs : GenerateContract(r) \/ ValidateContract(r) \/ ValidationRouter(r)

PairSpec == PairInit /\ [][PairNext]_vars

\* The extractor applied to every completion of at most MaxBlocks blocks.
ExtractInit ==
  /\ response_content \in Completions
  /\ extracted = NotExtracted
  /\ RagIdle
  /\ invoke_state = [r \in Runs |-> get_default_state]
  /\ internal_state = invoke_state
  /\ node = [r \in Runs |-> "idle"]
  /\ locals = [r \in Runs |-> NoLocals]
  /\ calls = [r \in Runs |-> NoCalls]

ExtractNext == ExtractArtifacts

ExtractSpec == ExtractInit /\ [][ExtractNext]_vars

\* Two runs at analyze_codebase, over every state of the persisted index and
\* of the corpus directory.
RagInit ==
  /\ invoke_state = [r \in Runs |-> get_default_state]
  /\ internal_state = [r \in Runs |-> analyze_requirements(get_default_state, "text").state]
  /\ node = [r \in Runs |-> "analyze_codebase"]
  /\ locals = [r \in Runs |-> NoLocals]
  /\ calls = [r \in Runs |-> NoCalls]
  /\ response_content = <<>>
  /\ extracted = NotExtracted
  /\ faiss_index \in IndexStates
  /\ samples_dir \in CorpusStates
  /\ all_samples = [r \in Runs |-> <<>>]

RagNext == \E r \in Runs : RetrieveSamples(r) \/ SynthesizeInsights(r)

RagSpec == RagInit /\ [][RagNext]_vars

\* Two runs at analyze_codebase over a loadable index of a large corpus.
MergeInit ==
  /\ invoke_state = [r \in Runs |-> get_default_state]
  /\ internal_state = [r \in Runs |-> analyze_requirements(get_default_state, "text").state]
  /\ node = [r \in Runs |-> "analyze_codebase"]
  /\ locals = [r \in Runs |-> NoLocals]
  /\ calls = [r \in Runs |-> NoCalls]
  /\ response_content = <<>>
  /\ extracted = NotExtracted
  /\ RagIdle

MergeNext == \E r \in Runs : MergeSamples(r) \/ SynthesizeInsights(r)

MergeSpec == MergeInit /\ [][MergeNext]_vars

\* Two runs at validate after a generation that produced artifacts; the
\* validation model answers both with the text held in response_content.
ValidateInit ==
  /\ LET s0 == get_default_state
         s1 == analyze_codebase(analyze_requirements(s0, "text").state,
                                [retrieval |-> "samples", synthesis |-> "text"]).state
         s2 == generate_contract(s1, "text", 1).state
     IN  /\ invoke_state = [r \in Runs |-> s0]
         /\ internal_state = [r \in Runs |-> s2]
  /\ node = [r \in Runs |-> "validate"]
  /\ locals = [r \in Runs |-> NoLocals]
  /\ calls = [r \in Runs |-> [NoCalls EXCEPT !.generate = 1]]
  /\ response_content \in FeedbackTexts
  /\ extracted = NotExtracted
  /\ RagIdle

ValidateNext == \E r \in Runs : ValidateFeedback(r)

ValidateSpec == ValidateInit /\ [][ValidateNext]_vars

\* One run at test_contract with generated artifacts; response_content holds
\* the texts the build service answers the submissions of the run with.
BuildTextInit ==
  /\ LET s0 == get_default_state
         s1 == analyze_codebase(analyze_requirements(s0, "text").state,
                                [retrieval |-> "samples", synthesis |-> "text"]).state
         s2 == generate_contract(s1, "text", 1).state
         s3 == validate_contract(s2, [kind |-> "feedback", issues |-> FALSE,
                                      affirmative |-> TRUE])
     IN  /\ invoke_state = [r \in Runs |-> s0]
         /\ internal_state = [r \in Runs |-> IF r = 1 THEN s3 ELSE s0]
  /\ node = [r \in Runs |-> IF r = 1 THEN "test_contract" ELSE "idle"]
  /\ locals = [r \in Runs |-> NoLocals]
  /\ calls = [r \in Runs |-> IF r = 1 THEN [NoCalls EXCEPT !.generate = 1] ELSE NoCalls]
  /\ response_content \in [1..max_cycles -> {Line(text, 0) : text \in BuildTexts}]
  /\ extracted = NotExtracted
  /\ RagIdle

BuildTextNext ==
  \E r \in Runs : TestContractEnter(r) \/ BuildText(r) \/ FixReply(r) \/ TestContractReturn(r)

BuildTextSpec == BuildTextInit /\ [][BuildTextNext]_vars

\* One run from generate_code on, the outcome of every generation model call
\* told apart.
GenerateCallInit ==
  /\ LET s0 == get_default_state
         s1 == analyze_codebase(analyze_requirements(s0, "text").state,
                                [retrieval |-> "samples", synthesis |-> "text"]).state
     IN  /\ invoke_state = [r \in Runs |-> s0]
         /\ internal_state = [r \in Runs |-> IF r = 1 THEN s1 ELSE s0]
  /\ node = [r \in Runs |-> IF r = 1 THEN "generate_code" ELSE "idle"]
  /\ locals = [r \in Runs |-> NoLocals]
  /\ calls = [r \in Runs |-> NoCalls]
  /\ response_content = <<>>
  /\ extracted = NotExtracted
  /\ RagIdle

GenerateCallNext ==
  \E r \in Runs : GenerateCall(r) \/ ValidateContract(r) \/ ValidationRouter(r)

GenerateCallSpec == GenerateCallInit /\ [][GenerateCallNext]_vars

\* ------------------------------------------------------------------ claims
\* The responses of the build service as the claims read them.
ReportsFailure(sub) == sub.resp.returncode = 0 /\ ~sub.resp.tv /\ sub.resp.error
ReportsSuccess(sub) == sub.resp.returncode = 0 /\ ~ReportsFailure(sub)

\* C1: from Analyze every run reaches End after finitely many stage
\* executions, whatever the model, validation and build-service outcomes and
\* whatever validation_count the run starts with.
C1_RunReachesEnd == <>(node[1] = END)

C1_Witness ==
  /\ node[1] = END
  /\ calls[1].generate = 2
  /\ Len(calls[1].build) = 2
  /\ Len(calls[1].fix) = 2

\* C2: validation_count <= V_MAX in every state of a run (stated for the runs
\* that start from the default count 0).
C2_CountWithinVMax ==
  \A r \in Runs :
    (invoke_state[r].validation_count = 0 /\ "validation_count" \in internal_state[r].keys)
      => internal_state[r].validation_count <= V_MAX

C4_OneIncrementPerTraversal ==
  [][\A r \in Runs :
       /\ (node[r] = "validation_router" /\ node'[r] = "generate_code")
            => internal_state'[r].validation_count = locals[r].validation_count + 1
       /\ (node'[r] = "test_contract"
           /\ internal_state'[r].test_cycle_count # internal_state[r].test_cycle_count)
            => internal_state'[r].test_cycle_count = internal_state[r].test_cycle_count + 1]_vars

C6_RouteDependsOnlyOnCount ==
  /\ (/\ node[1] = "validation_router"
      /\ node[2] = "validation_router"
      /\ internal_state[1].validation_count = internal_state[2].validation_count)
       => validation_router(internal_state[1]).route = validation_router(internal_state[2]).route
  /\ (/\ node[1] \in {"generate_code", "test_contract"}
      /\ node[2] \in {"generate_code", "test_contract"}
      /\ internal_state[1].validation_count = internal_state[2].validation_count)
       => node[1] = node[2]
  /\ (node[1] = "test_contract" /\ node[2] = "test_contract")
       => calls[1].generate = calls[2].generate

C6_Witness ==
  /\ node[1] = "validation_router"
  /\ node[2] = "validation_router"
  /\ internal_state[1].validation_count = internal_state[2].validation_count
  /\ internal_state[1].validation_result.passed
  /\ ~internal_state[2].validation_result.passed
  /\ internal_state[1].fixes # internal_state[2].fixes

\* C7: test_cycle_count <= T_MAX in every state, and one invocation of
\* test_contract submits to the build service at most T_MAX times.
C7_CyclesWithinTMax ==
  \A r \in Runs :
    /\ internal_state[r].test_cycle_count <= T_MAX
    /\ locals[r].test_cycle_count <= T_MAX
    /\ Len(calls[r].build) <= T_MAX

C7_Witness ==
  /\ node[1] = END
  /\ Len(calls[1].build) = T_MAX
  /\ ~internal_state[1].test_results.passed

\* C8: when the build fails on cycle 1 and succeeds on cycle 2, test_contract
\* ends with passed = true and cycle = 2, and the final output is the set
\* submitted in cycle 2, which holds what the fix reply supplied.
C8_FixedOnSecondCycle ==
  \A r \in Runs :
    (/\ node[r] = END
     /\ Len(calls[r].build) = 2
     /\ ReportsFailure(calls[r].build[1])
     /\ ReportsSuccess(calls[r].build[2]))
      => /\ internal_state[r].test_results.passed
         /\ internal_state[r].test_results.test_cycle = 2
         /\ internal_state[r].output = calls[r].build[2].output
         /\ calls[r].fix[1].kind \in {"json", "sanitized"}
              => \A k \in calls[r].fix[1].keys : internal_state[r].output[k] = File("fix", 1)

C8_Witness ==
  /\ node[1] = END
  /\ Len(calls[1].build) = 2
  /\ ReportsFailure(calls[1].build[1])
  /\ ReportsSuccess(calls[1].build[2])
  /\ calls[1].fix[1].kind = "json"
  /\ calls[1].fix[1].keys = OutputKeys

C10_LastSubmittedIsFinal ==
  \A r \in Runs :
    (/\ node[r] = END
     /\ Len(calls[r].build) = T_MAX
     /\ \A i \in 1..T_MAX : ReportsFailure(calls[r].build[i]))
      => /\ internal_state[r].output = calls[r].build[T_MAX].output
         /\ Len(calls[r].fix) < Len(calls[r].build)

\* C11: a submission the build service answers with a successful build is
\* the last one: no fix request and no submission follows it, the result is
\* passed, and the output at End is exactly the set that was submitted.
C11_SuccessExitsImmediately ==
  \A r \in Runs :
    \A i \in 1..Len(calls[r].build) :
      ReportsSuccess(calls[r].build[i])
        => /\ i = Len(calls[r].build)
           /\ Len(calls[r].fix) = i - 1
           /\ node[r] = "test_contract" => locals[r].pc = "break" /\ locals[r].test_results.passed
           /\ node[r] = END
                => /\ internal_state[r].test_results.passed
                   /\ internal_state[r].test_results.test_cycle = i
                   /\ internal_state[r].output = calls[r].build[i].output

C11_Witness ==
  /\ node[1] = END
  /\ Len(calls[1].build) = 1
  /\ ReportsSuccess(calls[1].build[1])
  /\ calls[1].fix = <<>>
  /\ internal_state[1].output = calls[1].build[1].output

\* C12: when the model call of analyze_requirements fails or returns an empty
\* completion, the error string is recorded in analysis and output.analysis
\* and the run goes directly to End: no later stage executes.
C12_AnalyzeFailureEndsRun ==
  [][\A r \in Runs :
       (node[r] = "analyze" /\ analyze_requirements(internal_state[r], "raise").state = internal_state'[r])
         => /\ internal_state'[r].analysis = "analyze_error"
            /\ internal_state'[r].output["analysis"] = File("analyze_error", 0)
            /\ node'[r] = END]_vars

C14_GenerateFailureGivesEmptyArtifacts ==
  [][\A r \in Runs :
       (/\ node[r] = "generate_code"
        /\ calls'[r].generate = calls[r].generate + 1
        /\ \E k \in OutputKeys \ {"analysis"} :
             internal_state'[r].output[k] # File("generate", calls'[r].generate))
         => /\ \A k \in {"contract", "state", "proto", "reference", "project"} :
                  internal_state'[r].output[k] = empty_code_file
            /\ internal_state'[r].output["metadata"] = File("list", 0)
            /\ internal_state'[r].output["analysis"] = File("generate_error", 0)
            /\ "output" \in internal_state'[r].keys
            /\ node'[r] # "raised"]_vars

C14_Witness ==
  /\ node[1] = "validate"
  /\ calls[1].generate = 2
  /\ internal_state[1].output["analysis"] = File("generate_error", 0)
  /\ internal_state[1].output["contract"] = empty_code_file

\* C15: no stage function lets an exception escape, for any input state and
\* any failure of a model, retrieval, parsing or build-service step.
C15_NoStageRaises == \A r \in Runs : node[r] # "raised"

\* C16: in every terminal state output is a complete ArtifactSet: it holds
\* all five roles, metadata and analysis, also after a failure and after the
\* build-fix loop replaced it.
C16_OutputCompleteAtEnd ==
  \A r \in Runs :
    node[r] = END
      => /\ "output" \in internal_state[r].keys
         /\ internal_state[r].output # NonObject
         /\ \A k \in OutputKeys : internal_state[r].output[k] # NoFile

\* ------------------------------------------------- claims on the extractor
\* The fenced blocks of a completion as the specification reads them: a
\* block opens at a fence line that has an even number of fence lines before
\* it and closes at the next fence line.
FencesUpTo(lines, j) == Cardinality({k \in 1..j : lines[k].fence})

OpeningFences(lines) ==
  {j \in 1..Len(lines) : lines[j].fence /\ FencesUpTo(lines, j) % 2 = 1}

IsClosed(lines, j) == \E k \in (j + 1)..Len(lines) : lines[k].fence

\* The lines of the block opened at line j, fences excluded.
BlockBody(lines, j) ==
  {lines[k] : k \in {m \in (j + 1)..Len(lines) : \A i \in (j + 1)..m : ~lines[i].fence}}

\* The path comment on the first line of the block opened at line j.
AnnotationOf(lines, j) ==
  IF j + 1 <= Len(lines) /\ StartsComment(lines[j + 1]) THEN lines[j + 1].text ELSE ""

\* The numbers of the code lines in a set of lines, and in a content.
CodeIn(body) == {line.n : line \in {l \in body : l.text = "code"}}
CodeOf(content) == CodeIn({content[i] : i \in 1..Len(content)})

\* The places of an output that hold code line n: fixed roles and indexes
\* into metadata.
PlacesHolding(output, n) ==
  {<<"role", role, 0>> : role \in {r \in CodeRoles : n \in CodeOf(output[r].content)}}
    \cup {<<"metadata", "", i>> : i \in {k \in 1..Len(output.metadata) :
                                            n \in CodeOf(output.metadata[k].content)}}

\* C17's completions: every fence is closed, every block opens with a path
\* comment in the prompt's form, and exactly one block is annotated as the
\* primary .cs file, one as State.cs and one as .proto.
PrimaryComments == {"// src/FooContract.cs", "// src/Helper.cs", "// src/ContractName.cs"}
StateComments == {"// src/FooState.cs"}
ProtoComments == {"// src/Protobuf/contract/foo.proto"}

BlocksAnnotated(lines, comments) ==
  {j \in OpeningFences(lines) : AnnotationOf(lines, j) \in comments}

OneBlockPerRole(lines) ==
  /\ \A j \in OpeningFences(lines) :
        IsClosed(lines, j) /\ AnnotationOf(lines, j) \in PromptPathComments
  /\ Cardinality(BlocksAnnotated(lines, PrimaryComments)) = 1
  /\ Cardinality(BlocksAnnotated(lines, StateComments)) = 1
  /\ Cardinality(BlocksAnnotated(lines, ProtoComments)) = 1

\* The content of the role is the body of block j: its lines without path
\* comments and blank lines, placeholders replaced, and nothing else.
HoldsBody(result, role, lines, j) ==
  LET kept == {l \in BlockBody(lines, j) : l.text # "" /\ ~StartsComment(l)}
      named == {update_contract_name_references(<<l>>, "", result.contract_name).content[1] :
                  l \in kept}
      content == result.output[role].content
  IN  {content[i] : i \in 1..Len(content)} = named

MetadataCode(output) ==
  {CodeOf(output.metadata[i].content) :
     i \in {k \in 1..Len(output.metadata) : output.metadata[k].content # <<>>}}

\* The opening fence of the block the completion leaves open, or 0.
OpenFence(lines) ==
  IF \E j \in OpeningFences(lines) : ~IsClosed(lines, j)
  THEN CHOOSE j \in OpeningFences(lines) : ~IsClosed(lines, j)
  ELSE 0

\* C18: for a completion whose last fence is not closed the extractor does
\* not raise, no role and no metadata entry receives content of the open
\* block, and the blocks closed before it are held where they are held when
\* the completion stops before the open block.
C18_OpenBlockCommitsNothing ==
  (extracted.done /\ OpenFence(response_content) # 0)
    => LET j == OpenFence(response_content)
           before == extract_artifacts(SubSeq(response_content, 1, j - 1), "generated")
       IN  /\ extracted.goto = "validate"
           /\ \A n \in CodeIn(BlockBody(response_content, j)) :
                 PlacesHolding(extracted.output, n) = {}
           /\ \A role \in CodeRoles :
                 CodeOf(extracted.output[role].content) = CodeOf(before.output[role].content)
           /\ MetadataCode(extracted.output) = MetadataCode(before.output)

C18_Witness ==
  /\ extracted.done
  /\ OpenFence(response_content) # 0
  /\ AnnotationOf(response_content, OpenFence(response_content)) = "// src/FooState.cs"
  /\ CodeIn(BlockBody(response_content, OpenFence(response_content))) # {}
  /\ CodeOf(extracted.output["state"].content) # {}
  /\ CodeOf(extracted.output["contract"].content) # {}

\* C19: after one pass every non-empty fenced block of the completion is
\* held by exactly one place of the output, a fixed role or a metadata
\* entry, whatever its path comment or language tag.
C19_EveryBlockHeldOnce ==
  extracted.done
    => \A j \in OpeningFences(response_content) :
         IsClosed(response_content, j)
           => \A n \in CodeIn(BlockBody(response_content, j)) :
                Cardinality(PlacesHolding(extracted.output, n)) = 1

\* C20: when the scan left every role without content and metadata empty,
\* generate_contract reports a parse failure and does not hand the empty
\* ArtifactSet to validate.
C20_NothingExtractedIsAFailure ==
  (/\ extracted.done
   /\ \A role \in CodeRoles : extracted.output[role].content = <<>>
   /\ extracted.output.metadata = <<>>)
    => extracted.goto # "validate"

\* The texts of the model that hold the placeholder "ContractName" or the
\* placeholder "contractname": lines of a completion, and the paths lines
\* 1078-1100 build from a name that is itself the placeholder.
PlaceholderTexts ==
  { PlaceholderLine, LowerPlaceholderLine, "// src/ContractName.cs", "src/ContractName.cs",
    "ContractName", "contractname", "src/ContractName.csproj", "src/ContractNameContract.cs",
    "src/ContractNameState.cs", "src/Protobuf/contract/contractname.proto" }

HasPlaceholder(text) == text \in PlaceholderTexts

\* Every artifact of an output, the fixed roles and the entries of metadata.
ArtifactsOf(output) ==
  {output[role] : role \in CodeRoles} \cup {output["metadata"][j] : j \in 1..Len(output["metadata"])}

\* Where an artifact holds the code the completion wrote under a placeholder
\* line, it holds that line with the placeholder replaced by `by`.
Replaced(artifact, placeholder, by) ==
  \A i \in 1..(Len(response_content) - 1) :
    response_content[i].text = placeholder =>
      \A j \in 1..Len(artifact.content) :
        artifact.content[j] = response_content[i + 1] =>
          j > 1 /\ artifact.content[j - 1].text = by

Last(seq) == seq[Len(seq)]

\* Run r's analyze_codebase returns with this step, after a retrieval that
\* found no loadable index and a corpus that is empty or absent.
ReturnsOverEmptyCorpus(r) ==
  /\ node[r] = "analyze_codebase" /\ node'[r] # "analyze_codebase"
  /\ samples_dir \in {"empty", "missing"}
  /\ Last(calls[r].retrieve).index # "valid"

C23_LoadFailureRebuildsIndex ==
  [][\A r \in Runs :
       /\ (locals[r].pc = "idle" /\ locals'[r].pc = "synthesis")
            => LET call == Last(calls'[r].retrieve)
               IN  /\ node'[r] = "analyze_codebase"
                   /\ (call.index \in {"missing", "corrupt"} /\ call.services.embeddings)
                        => IF samples_dir = "docs" /\ call.services.build
                           THEN call.stores[1] = "rebuilt" /\ faiss_index' = "valid"
                           ELSE /\ \A i \in 1..Len(call.stores) : call.stores[i] = "none"
                                /\ faiss_index' = faiss_index
                                /\ all_samples'[r] = <<>>
       /\ (node[r] = "analyze_codebase" /\ node'[r] # "analyze_codebase")
            => node'[r] = "generate_code"]_vars

\* Run 1 found a corrupted index, rebuilt it, got samples from it and went on
\* to generate_code.
C23_Witness ==
  /\ node[1] = "generate_code"
  /\ calls[1].retrieve[1].index = "corrupt"
  /\ calls[1].retrieve[1].stores[1] = "rebuilt"
  /\ faiss_index = "valid"
  /\ internal_state[1].retrieved_samples = "samples"

\* Everything a run holds: its PipelineState, the locals of its stage
\* functions, its position and the record of its calls.
RunState(r) == <<internal_state[r], locals[r], all_samples[r], node[r], calls[r], invoke_state[r]>>

\* C24: every step of two interleaved runs is the step of one run r: it
\* leaves everything the other run holds as it was, and what r holds after it
\* is computed from what r held before, the outcomes of r's own calls, the
\* corpus and the persisted index, which is the one thing a step of either
\* run may change for both.
C24_RunsShareOnlyTheIndex ==
  [][\E r \in Runs :
       /\ \A o \in Runs \ {r} : RunState(o)' = RunState(o)
       /\ samples_dir' = samples_dir
       /\ (locals[r].pc = "idle" /\ locals'[r].pc = "synthesis")
            => LET call == Last(calls'[r].retrieve)
               IN  /\ internal_state'[r] = internal_state[r]
                   /\ call.index = faiss_index
                   /\ \E docs \in [1..Len(call.stores) -> SearchResults] :
                        LET res == retrieval_loop(call.services, docs, 1, faiss_index,
                                                  samples_dir, <<>>, <<>>)
                        IN  /\ all_samples'[r] = res.all_samples
                            /\ faiss_index' = res.index
                            /\ call.stores = res.stores
       /\ (node[r] = "analyze_codebase" /\ node'[r] # "analyze_codebase")
            => /\ faiss_index' = faiss_index
               /\ Last(calls'[r].analyze).retrieval =
                    (IF all_samples[r] = <<>> THEN "failed" ELSE "samples")
               /\ internal_state'[r] =
                    analyze_codebase(internal_state[r], Last(calls'[r].analyze)).state]_vars

\* Run 1 built the index it found missing, run 2 loaded the index run 1 had
\* built, and the two runs hold different samples and different insights.
C24_Witness ==
  /\ node[1] = "generate_code" /\ node[2] = "generate_code"
  /\ calls[1].retrieve[1].index = "missing" /\ calls[1].retrieve[1].stores[1] = "rebuilt"
  /\ calls[2].retrieve[1].index = "valid" /\ calls[2].retrieve[1].stores[1] = "loaded"
  /\ all_samples[1] # all_samples[2]
  /\ all_samples[1] # <<>> /\ all_samples[2] # <<>>
  /\ internal_state[1].codebase_insights = "synthesized"
  /\ internal_state[2].codebase_insights = "default"

\* C25: when the reply to a fix request is parsed and stored as the new
\* output, every required role is in it: a role the reply holds has the
\* reply's value and a role the reply lacks keeps the value it had.
C25_AcceptedFixKeepsMissingRoles ==
  [][\A r \in Runs :
       (/\ locals[r].pc = "fix" /\ locals'[r].pc = "loop"
        /\ Last(calls'[r].fix).kind \in {"json", "sanitized", "json_list", "sanitized_list"})
         => \A k \in required_keys :
              internal_state'[r].output[k] =
                IF k \in Last(calls'[r].fix).keys
                THEN File("fix", locals'[r].test_cycle_count)
                ELSE internal_state[r].output[k]]_vars

\* The pass of the loop run r makes with this step ends on a failure of the
\* build-service call: packaging or submitting raised, or the submission
\* command exited with a non-zero code.
BuildCallFails(r) ==
  /\ node[r] = "test_contract" /\ locals[r].pc = "loop" /\ locals'[r].pc = "break"
  /\ \/ calls'[r].build = calls[r].build
     \/ Last(calls'[r].build).resp.returncode # 0

\* C26: a failure of the build-service call ends the loop: the result is not
\* passed and carries the error text, the output is left as it was submitted,
\* and the next step of the run is the return of test_contract, which makes no
\* further submission or fix request and hands that output and that result to
\* End.
C26_BuildCallFailureEndsLoop ==
  [][\A r \in Runs :
       /\ BuildCallFails(r)
            => /\ ~locals'[r].test_results.passed
               /\ locals'[r].test_results.build_output \in {"API call failed", "Error during testing"}
               /\ locals'[r].test_results.errors \in {"stderr", "exception"}
               /\ internal_state'[r].output = internal_state[r].output
               /\ calls'[r].fix = calls[r].fix
       /\ (locals[r].pc = "break" /\ RunState(r)' # RunState(r))
            => /\ node'[r] = END
               /\ calls'[r] = calls[r]
               /\ internal_state'[r].output = internal_state[r].output
               /\ internal_state'[r].test_results = locals[r].test_results]_vars

\* The second submission exited with a non-zero code after a fix had replaced
\* the output: the run is at End with that output and a failed result.
C26_Witness ==
  /\ node[1] = END
  /\ Len(calls[1].build) = 2
  /\ calls[1].build[2].resp.returncode # 0
  /\ Len(calls[1].fix) = 1
  /\ internal_state[1].output = calls[1].build[2].output
  /\ internal_state[1].output # calls[1].build[1].output
  /\ ~internal_state[1].test_results.passed
  /\ internal_state[1].test_results.build_output = "API call failed"

\* The router is about to run on a state of run r with validation_count = 1
\* and validation_complete = true.
RouterAfterOneCycle(r) ==
  /\ node[r] = "validation_router"
  /\ internal_state[r].validation_count = 1
  /\ "validation_complete" \in internal_state[r].keys
  /\ internal_state[r].validation_complete

C28_EndToEndRunCompletes ==
  \A r \in Runs :
    invoke_state[r].validation_count = 0
      => /\ node[r] # "raised"
         /\ "validation_count" \in internal_state[r].keys
              => internal_state[r].validation_count <= V_MAX
         /\ (/\ node[r] = END
             /\ Len(calls[r].build) >= 1
             /\ calls[r].build[1].output["contract"] = File("generate", calls[r].generate))
              => /\ internal_state[r].output # NonObject
                 /\ \A k \in {"contract", "state", "proto"} :
                      internal_state[r].output[k] \notin {NoFile, empty_code_file}

\* C29: when a run started as POST /generate starts it has reached End, the
\* handler answers with status 200 and the output of that run.
C29_FrontDoorReturnsArtifacts ==
  \A r \in Runs :
    (node[r] = END /\ invoke_state[r] = get_default_state)
      => /\ post_generate(ainvoke_result(r)).status_code = 200
         /\ post_generate(ainvoke_result(r)).body = internal_state[r].output

\* The opening fences of the blocks whose path comment maps to the primary
\* role (a .cs path that is neither a state nor a reference file).
PrimaryBlocks(lines) ==
  {j \in OpeningFences(lines) :
     AnnotationOf(lines, j) # "" /\ component_of(file_path_of(lines[j + 1])) = "cs"}

\* The members of a set of numbers in increasing order.
RECURSIVE Ascending(_)
Ascending(S) ==
  IF S = {} THEN <<>>
  ELSE LET least == CHOOSE m \in S : \A k \in S : m <= k
       IN  <<least>> \o Ascending(S \ {least})

\* The content is the body of block j: all its lines but path comments and
\* blank lines, placeholders replaced, and no line of another block (a path
\* comment of the block may be left in it).
ContentIsBody(content, contract_name, lines, j) ==
  LET kept   == {l \in BlockBody(lines, j) : l.text # "" /\ ~StartsComment(l)}
      named  == {update_contract_name_references(<<l>>, "", contract_name).content[1] : l \in kept}
      echoed == {l \in BlockBody(lines, j) : StartsComment(l)}
      held   == {content[i] : i \in 1..Len(content)}
  IN  named \subseteq held /\ held \subseteq named \cup echoed

\* C30: of the .cs blocks of a completion that map to the primary role the
\* first becomes the contract artifact; each later one is an entry of
\* metadata, in the order of the blocks, with the path of its own path
\* comment and, when its fence is closed, its own content; no line of a later
\* block is in the contract artifact.
C30_FirstPrimaryIsKept ==
  extracted.done
    => LET lines   == response_content
           primary == Ascending(PrimaryBlocks(lines))
           name    == extracted.contract_name
       IN  Len(primary) >= 1
             => /\ IsClosed(lines, primary[1])
                     => ContentIsBody(extracted.output["contract"].content, name, lines, primary[1])
                /\ Len(extracted.output["metadata"]) >= Len(primary) - 1
                /\ \A i \in 2..Len(primary) :
                     LET entry == extracted.output["metadata"][i - 1]
                     IN  /\ entry.path =
                              update_contract_name_references(
                                <<>>, file_path_of(lines[primary[i] + 1]), name).path
                         /\ IsClosed(lines, primary[i])
                              => ContentIsBody(entry.content, name, lines, primary[i])
                         /\ CodeIn(BlockBody(lines, primary[i]))
                              \cap CodeOf(extracted.output["contract"].content) = {}

\* Three primary blocks: the contract role holds the first, metadata the
\* second and the third, each under its own path.
C30_Witness ==
  /\ extracted.done
  /\ Cardinality(PrimaryBlocks(response_content)) = 3
  /\ CodeOf(extracted.output["contract"].content) = {1}
  /\ Len(extracted.output["metadata"]) = 2
  /\ CodeOf(extracted.output["metadata"][1].content) = {2}
  /\ CodeOf(extracted.output["metadata"][2].content) = {3}
  /\ extracted.output["metadata"][1].path = "src/Helper.cs"
  /\ extracted.output["metadata"][2].path # extracted.output["metadata"][1].path

\* The role the language tag of a fence names: the source tag the primary
\* role, the interface-schema tag the interface role, the project-config
\* tag the project role.
TagRole(tag) ==
  CASE tag = "csharp"   -> "contract"
    [] tag = "protobuf" -> "proto"
    [] tag = "xml"      -> "project"
    [] OTHER            -> "none"

\* The closed blocks without a path comment whose tag names a role that no
\* other block of the completion is written for.
UnannotatedBlocks(lines) ==
  {j \in OpeningFences(lines) :
     /\ IsClosed(lines, j)
     /\ AnnotationOf(lines, j) = ""
     /\ TagRole(lines[j].text) # "none"
     /\ \A k \in OpeningFences(lines) \ {j} :
          /\ TagRole(lines[k].text) # TagRole(lines[j].text)
          /\ AnnotationOf(lines, k) # ""
               => component_of(file_path_of(lines[k + 1])) \notin {"cs", "proto", "project"}}

\* C31: a closed block without a path comment is given the role of its
\* language tag, and its content is committed to that role.
C31_UnannotatedBlockTakesTagRole ==
  extracted.done
    => \A j \in UnannotatedBlocks(response_content) :
         CodeIn(BlockBody(response_content, j))
           \subseteq CodeOf(extracted.output[TagRole(response_content[j].text)].content)

\* C32: after a pass of the extractor the path of the project artifact is
\* src/<name>.csproj for the resolved name, whatever path the completion
\* wrote above the block.
C32_ProjectPathIsCanonical ==
  extracted.done
    => extracted.output["project"].path = "src/" \o extracted.contract_name \o ".csproj"

\* The project block came under src/Foo.csproj, the resolved name is
\* FooContract, and the project role holds the block.
C32_Witness ==
  /\ extracted.done
  /\ extracted.contract_name = "FooContract"
  /\ \E j \in OpeningFences(response_content) :
        /\ AnnotationOf(response_content, j) = "<!-- src/Foo.csproj -->"
        /\ CodeIn(BlockBody(response_content, j)) # {}
        /\ CodeIn(BlockBody(response_content, j))
             \subseteq CodeOf(extracted.output["project"].content)
  /\ extracted.output["project"].path = "src/FooContract.csproj"

\* C33: the merged sample set of a run holds no two samples of one source
\* and at most 2 * retrieval_k samples.
C33_MergedSetWithinCap ==
  \A r \in Runs :
    /\ \A i, j \in 1..Len(all_samples[r]) : all_samples[r][i] = all_samples[r][j] => i = j
    /\ Len(all_samples[r]) <= 2 * retrieval_k

\* The feedback holds the affirmative marker "no issues found" in some case.
SaysNoIssuesFound(feedback) ==
  \E i \in 1..Len(feedback) : feedback[i].text = "No Issues Found in this category."

\* Some line of the feedback names an issue: it holds one of the words the
\* validation scans for.
NamesAnIssue(feedback) ==
  \E i \in 1..Len(feedback) :
    feedback[i].text \in {"1. Critical issues: the owner guard is missing.",
                          "No Issues Found in this category.",
                          "The fee parameter is invalid."}

\* C34: after validate_contract has read a feedback, passed is true exactly
\* when no issue was extracted from the feedback or the feedback holds the
\* marker "no issues found" in any case; when the validation call failed,
\* passed is false.
C34_PassedIffNoIssueOrMarker ==
  \A r \in Runs :
    node[r] = "validation_router"
      => LET result == internal_state[r].validation_result
         IN  IF internal_state[r].validation_status = "error"
             THEN ~result.passed
             ELSE /\ result.issues = "none" <=> ~NamesAnIssue(response_content)
                  /\ result.passed <=> (result.issues = "none"
                                          \/ SaysNoIssuesFound(response_content))

\* A feedback with an issue line and the marker was read: issues were
\* extracted and passed is true.
C34_Witness ==
  \E r \in Runs :
    /\ node[r] = "validation_router"
    /\ internal_state[r].validation_status = "success"
    /\ internal_state[r].validation_result.passed
    /\ internal_state[r].validation_result.issues = "extracted"
    /\ \E i \in 1..Len(response_content) :
          response_content[i].text = "1. Critical issues: the owner guard is missing."
    /\ SaysNoIssuesFound(response_content)

\* The response starts with the success prefix "TV", surrounding white space
\* aside.
HasSuccessPrefix(text) ==
  text \in {"TVqQAAMAAAAEAAAA", "TVqQAAMA error", " TVqQAAMA Error CS0103"}

\* The response holds the keyword "error" in some case.
HoldsErrorKeyword(text) ==
  text \in {"TVqQAAMA error", " TVqQAAMA Error CS0103", "Build FAILED: Error CS0103",
            "error CS0246: type not found"}

\* Run r submits to the build service with this step and the call completes.
Submits(r) == Len(calls'[r].build) = Len(calls[r].build) + 1

\* C35: the response of a completed call is taken as a failed build exactly
\* when it does not start with "TV" and holds "error" in any case; every
\* other response, the empty one included, is taken as a passed build.
C35_FailedIffNoPrefixAndError ==
  [][\A r \in Runs :
       Submits(r)
         => LET text   == response_content[Len(calls'[r].build)].text
                failed == (~HasSuccessPrefix(text)) /\ HoldsErrorKeyword(text)
            IN  /\ failed => /\ ~locals'[r].test_results.passed
                             /\ locals'[r].test_results.errors = "error_lines"
                             /\ locals'[r].pc \in {"fix", "loop"}
                /\ ~failed => /\ locals'[r].test_results.passed
                              /\ locals'[r].test_results.build_output = "Build succeeded"
                              /\ locals'[r].pc = "break"]_vars

\* An empty response was taken as a passed build, and a response with Error
\* in capitals and no prefix as a failed one.
C35_Witness ==
  \E r \in Runs :
    /\ Len(calls[r].build) = 2
    /\ response_content[1].text = "Build FAILED: Error CS0103"
    /\ response_content[2].text = ""
    /\ locals[r].test_results.passed
    /\ locals[r].pc = "break"

\* The generation model call of run r ends with this step.
GenerationCallEnds(r) == Len(calls'[r].completions) = Len(calls[r].completions) + 1

\* C36: when the generation call times out with a part of the completion
\* received, generate_contract extracts artifacts from that part and hands
\* over to validate; it stores the error ArtifactSet only when nothing was
\* received.
C36_TimeoutSalvagesPartialText ==
  [][\A r \in Runs :
       (GenerationCallEnds(r) /\ Last(calls'[r].completions).kind = "timeout")
         => IF Last(calls'[r].completions).text = "partial"
            THEN /\ internal_state'[r].output["contract"] = File("generate", calls'[r].generate)
                 /\ internal_state'[r].output["analysis"] # File("generate_error", 0)
            ELSE internal_state'[r].output["contract"] = empty_code_file]_vars

\* An external call of run r returns with this step: a retrieval (embedding
\* and index calls), a synthesis completion, a build submission or a fix
\* completion.
ExternalCallEnds(r) ==
  \/ calls'[r].retrieve # calls[r].retrieve
  \/ calls'[r].analyze # calls[r].analyze
  \/ calls'[r].build # calls[r].build
  \/ calls'[r].fix # calls[r].fix

\* Run r has an external call in flight and has given up control: the steps
\* of other runs come before the return of the call.
Suspended(r) == locals[r].pc \in {"synthesis", "fix"}

\* C37: every external call of a run is a suspension point, so the state
\* before the return of a call is one in which the run is suspended and the
\* other runs can step; and a run is in one stage at a time.
C37_EveryExternalCallSuspends ==
  [][\A r \in Runs :
       /\ ExternalCallEnds(r) => Suspended(r)
       /\ \A o \in Runs \ {r} :
            ExternalCallEnds(r) => /\ node'[o] = node[o]
                                   /\ internal_state'[o] = internal_state[o]]_vars

\* Run r leaves test_contract with this step.
LeavesTestContract(r) == node[r] = "test_contract" /\ node'[r] # "test_contract"

\* C38: whatever test_cycle_count the incoming state holds, a count of T_MAX
\* or more included, test_contract returns, and the state it returns carries
\* a test_results record.
C38_TestContractAlwaysReturnsResults ==
  [][\A r \in Runs :
       LeavesTestContract(r)
         => /\ node'[r] = END
            /\ "test_results" \in internal_state'[r].keys
            /\ internal_state'[r].test_results # NoTestResults]_vars

\* The reply to the fix request of run r arrives with this step and holds no
\* <UPDATED_OUTPUT> block, or a block that does not parse even when
\* sanitised.
UnparsedFixReply(r) ==
  /\ Len(calls'[r].fix) = Len(calls[r].fix) + 1
  /\ Last(calls'[r].fix).kind \in {"noblock", "badjson"}

\* C39: a fix reply without a block, or with a block that cannot be parsed,
\* leaves output as it is and counts the cycle; the submission of the next
\* cycle is the ArtifactSet of the cycle before.
C39_UnparsedFixKeepsOutput ==
  [][\A r \in Runs :
       /\ UnparsedFixReply(r)
            => /\ internal_state'[r].output = internal_state[r].output
               /\ internal_state'[r].output = Last(calls[r].build).output
               /\ locals'[r].test_cycle_count = locals[r].test_cycle_count + 1
               /\ internal_state'[r].test_cycle_count = locals'[r].test_cycle_count
       /\ (/\ Submits(r)
           /\ calls[r].fix # <<>>
           /\ Len(calls[r].fix) = Len(calls[r].build)
           /\ Last(calls[r].fix).kind \in {"noblock", "badjson"})
            => /\ Last(calls'[r].build).output = Last(calls[r].build).output
               /\ Len(calls'[r].build) <= T_MAX]_vars

\* A reply that did not parse came after the first submission, and the
\* second submission holds the ArtifactSet of the first.
C39_Witness ==
  \E r \in Runs :
    /\ Len(calls[r].build) = 2
    /\ calls[r].fix[1].kind = "badjson"
    /\ calls[r].build[2].output = calls[r].build[1].output
    /\ calls[r].build[1].output["contract"] = File("generate", calls[r].generate)

\* generate_contract of run r fails with this step: it stores the empty
\* error ArtifactSet.
GenerateFails(r) ==
  /\ node[r] = "generate_code"
  /\ calls'[r].generate = calls[r].generate + 1
  /\ internal_state'[r].output["analysis"] = File("generate_error", 0)

\* Run r holds the empty error ArtifactSet of a failed generation.
HoldsErrorArtifacts(r) ==
  /\ "output" \in internal_state[r].keys
  /\ internal_state[r].output["analysis"] = File("generate_error", 0)
  /\ internal_state[r].output["contract"] = empty_code_file

\* C40: a failed generate_contract takes the run to End; no stage runs on
\* the empty error ArtifactSet: it is not validated, not generated again and
\* not submitted to the build service.
C40_GenerateFailureEndsRun ==
  [][\A r \in Runs :
       /\ GenerateFails(r) => node'[r] = END
       /\ HoldsErrorArtifacts(r)
            => /\ node'[r] = node[r]
               /\ internal_state'[r] = internal_state[r]
               /\ calls'[r] = calls[r]]_vars
====
